---- MODULE Spec2Model ----
(***************************************************************************)
(* A model of the nhls aperiodic (AP) FFT stencil solver: the AABB and     *)
(* frustrum geometry, and the executor that walks a plan of periodic and   *)
(* direct solves.                                                          *)
(***************************************************************************)
EXTENDS Integers, Sequences, FiniteSets, TLC

VARIABLES
    outer,            \* AABB geometry: the box that is decomposed
    center,           \* AABB geometry: the box inside it
    decomp,           \* AABB geometry: result of outer.decomposition(center)
    wrapped,          \* AABB geometry: a coordinate and outer.periodic_coord of it
    built,            \* AABB constructors and ConstantCheck: the call and its result
    trapezoid,        \* trapezoid solve: its arguments, input region and result
    plan_library,     \* FFT plans: FFTPlanLibrary, and the get_plan calls made on it
    global_aabb,      \* frustrum algebra: the box of the whole grid
    stencil_slopes,   \* frustrum algebra: the stencil's slopes (Bounds)
    orig,             \* frustrum algebra: the frustrum before any operation
    chain,            \* frustrum algebra: frustrums made by time cuts, in time order
    last,             \* frustrum algebra: the last operation, its arguments and result
    planner_params,   \* solver: stencil slopes, cutoff and ratio of the planner
    plan,             \* solver: APSolver.plan, the nodes by id and the root
    node_scratch_descriptors,  \* solver: APSolver.node_scratch_descriptors
    total_steps,      \* solver: the steps one apply advances
    pc,               \* executor: where each node's call stands
    iter,             \* executor: the loop counter of solve_root
    applies,          \* caller: applies finished and swapped
    domains,          \* executor: the (input_domain, output_domain) pair of the
                      \* caller and of every node that takes scratch
    writes,           \* history: per periodic node, what its boundary nodes copied
                      \* into its output domain since the last spawn
    events,           \* history: per periodic node, the events of its current call
    panic             \* executor: "" or the failure that ended the solve

aabbVars == <<outer, center, decomp, wrapped, built>>
frustrumVars == <<stencil_slopes, orig, chain, last, global_aabb>>
trapezoidVars == <<trapezoid>>
fftVars == <<plan_library>>
planVars == <<planner_params, plan, node_scratch_descriptors, total_steps>>
execVars == <<planVars, pc, iter, applies, domains, writes, events, panic>>
vars == <<aabbVars, frustrumVars, trapezoidVars, fftVars, execVars>>

----------------------------------------------------------------------------
(* Bounds of the model *)

GRID_DIMENSION == 2
NegExtent == 1
MaxCoord == 3
FMaxCoord == 1
MaxSteps == 3
MaxChain == 3
MaxTotalSteps == 5
MaxApplies == 2
MaxRequests == 3

Dims == 0..(GRID_DIMENSION - 1)
CoordRange == (-NegExtent)..MaxCoord

None == <<>>
Some(x) == <<x>>

----------------------------------------------------------------------------
(* util/aabb.rs *)

\* Bounds<D> is a D x 2 integer matrix, column 0 the min corner, column 1 the
\* max; an AABB is its bounds.  A box is a function from the dimensions
\* 0..D-1 to [0..1 -> Int], so every operation works for the D of its argument.
from_element(v) == [d \in Dims |-> [s \in 0..1 |-> v]]
bounds_from_element(dims, v) == [d \in dims |-> [s \in 0..1 |-> v]]

\* AABB::new keeps the bounds it is given
AABB_new(bounds) == bounds

check_validity(a) == \A d \in DOMAIN a : ~(a[d][0] > a[d][1])

\* A mutation of from_mm: no assertion.
from_mm_unchecked(min, max, dbg) ==
    [panicked |-> FALSE,
     aabb |-> [d \in DOMAIN min |-> [s \in 0..1 |-> IF s = 0 THEN min[d] ELSE max[d]]]]

\* from_mm: the bounds from the two corners; the debug assertion of
\* check_validity fails (the call panics) in a build with debug assertions
from_mm(min, max, dbg) ==
    LET result == AABB_new([d \in DOMAIN min |-> [s \in 0..1 |->
                                IF s = 0 THEN min[d] ELSE max[d]]])
    IN  [panicked |-> dbg /\ ~check_validity(result), aabb |-> result]

contains(a, coord) == \A d \in DOMAIN a : ~(coord[d] < a[d][0] \/ coord[d] > a[d][1])

contains_aabb(a, other) ==
    \A d \in DOMAIN a : ~(other[d][0] < a[d][0] \/ other[d][1] > a[d][1])

add_bounds_diff(a, diff) == [d \in DOMAIN a |-> [s \in 0..1 |-> a[d][s] + diff[d][s]]]

\* periodic_coord: a coordinate below the min becomes max + 1 + coord, one
\* above the max becomes min + (coord - max - 1)
periodic_coord(self, coord) ==
    [d \in DOMAIN self |->
        IF coord[d] < self[d][0] THEN self[d][1] + 1 + coord[d]
        ELSE IF coord[d] > self[d][1] THEN self[d][0] + (coord[d] - self[d][1] - 1)
        ELSE coord[d]]

\* The coordinates coord_iter enumerates: buffer_size is the product of the
\* exclusive sizes, so a box with max = min - 1 in a dimension enumerates nothing.
coord_iter(a) ==
    LET lo == CHOOSE x \in {a[d][0] : d \in DOMAIN a} : \A d \in DOMAIN a : x <= a[d][0]
        hi == CHOOSE x \in {a[d][1] : d \in DOMAIN a} : \A d \in DOMAIN a : x >= a[d][1]
    IN  {c \in [DOMAIN a -> lo..hi] : contains(a, c)}

\* remaining_bounds at the top of loop iteration d: the dimensions below d
\* have been narrowed to the center's band.
remaining_bounds(self, ctr, d) ==
    [e \in DOMAIN self |-> IF e < d THEN ctr[e] ELSE self[e]]

decomposition_boxes(self, ctr) ==
    [d \in DOMAIN self |->
        [s \in 0..1 |->
            IF s = 0
            THEN [remaining_bounds(self, ctr, d) EXCEPT ![d][1] = ctr[d][0] - 1]
            ELSE [remaining_bounds(self, ctr, d) EXCEPT ![d][0] = ctr[d][1] + 1]]]

\* A mutation of decomposition: the remainder is not narrowed to the band.
decomposition_no_narrow(self, ctr, dbg) ==
    [panicked |-> FALSE,
     boxes |-> [d \in DOMAIN self |->
        [s \in 0..1 |->
            IF s = 0
            THEN [self EXCEPT ![d][1] = ctr[d][0] - 1]
            ELSE [self EXCEPT ![d][0] = ctr[d][1] + 1]]]]

\* decomposition: the two debug assertions fail (the call panics) in a build
\* with debug assertions when a slab is not a valid box.
decomposition(self, ctr, dbg) ==
    LET boxes == decomposition_boxes(self, ctr)
    IN  IF dbg /\ \E d \in DOMAIN self, s \in 0..1 : ~check_validity(boxes[d][s])
        THEN [panicked |-> TRUE, boxes |-> boxes]
        ELSE [panicked |-> FALSE, boxes |-> boxes]

ValidBoxes(lo, hi) ==
    {b \in [Dims -> [0..1 -> lo..hi]] : check_validity(b)}

----------------------------------------------------------------------------
(* solver/trapezoid.rs *)

\* A mutation of trapezoid_input_region: the min column is not negated.
trapezoid_input_region_no_negate(steps, output_box, sloped_sides_, slopes) ==
    add_bounds_diff(output_box,
        [d \in DOMAIN output_box |-> [s \in 0..1 |->
            steps * (slopes[d][s] * sloped_sides_[d][s])]])

\* trapezoid_input_region: grow the output box by steps * slope on sloped faces
trapezoid_input_region(steps, output_box, sloped_sides_, slopes) ==
    LET trapezoid_slopes ==
            [d \in DOMAIN output_box |-> [s \in 0..1 |->
                IF s = 0 THEN -1 * (slopes[d][0] * sloped_sides_[d][0])
                         ELSE slopes[d][1] * sloped_sides_[d][1]]]
    IN  add_bounds_diff(output_box,
            [d \in DOMAIN output_box |-> [s \in 0..1 |-> steps * trapezoid_slopes[d][s]]])

----------------------------------------------------------------------------
(* fft_solver/ap_frustrum.rs *)

inner_index(side) == IF side = "Min" THEN 1 ELSE 0
outer_index(side) == IF side = "Min" THEN 0 ELSE 1
inner_coef(side) == IF side = "Min" THEN -1 ELSE 1
outer_coef(side) == IF side = "Min" THEN 1 ELSE -1

APFrustrum(output_aabb, recursion_dimension, side, steps) ==
    [output_aabb |-> output_aabb, recursion_dimension |-> recursion_dimension,
     side |-> side, steps |-> steps]

\* A mutation of sloped_sides: the outer side of the recursion dimension and
\* the dimensions above it are the sloped ones.
sloped_sides_outer(self) ==
    [d \in DOMAIN self.output_aabb |-> [s \in 0..1 |->
        IF d = self.recursion_dimension /\ s = outer_index(self.side) THEN 1
        ELSE IF d > self.recursion_dimension THEN 1
        ELSE 0]]

\* sloped_sides starts from all ones, then clears the outer side of the
\* recursion dimension and both sides of every dimension above it.
sloped_sides(self) ==
    [d \in DOMAIN self.output_aabb |-> [s \in 0..1 |->
        IF d = self.recursion_dimension /\ s = outer_index(self.side) THEN 0
        ELSE IF d > self.recursion_dimension THEN 0
        ELSE 1]]

\* frustrum_input_aabb is called by APFrustrum::input_aabb; its body is not
\* among the source files.  Spec 4.2: multiply sloped_sides by stencil_slopes
\* element-wise, negate the min column, multiply by steps, add to output_aabb.
frustrum_input_aabb(steps, output_aabb, sloped_sides_, slopes) ==
    [d \in DOMAIN output_aabb |-> [s \in 0..1 |->
        IF s = 0
        THEN output_aabb[d][0] - steps * (sloped_sides_[d][0] * slopes[d][0])
        ELSE output_aabb[d][1] + steps * (sloped_sides_[d][1] * slopes[d][1])]]

input_aabb(self, slopes) ==
    frustrum_input_aabb(self.steps, self.output_aabb, sloped_sides(self), slopes)

\* A mutation of time_cut: the head keeps the old output_aabb.
time_cut_keep_output(self, cut_steps, slopes, dbg) ==
    IF cut_steps >= self.steps
    THEN [panicked |-> FALSE, self |-> self, ret |-> None]
    ELSE [panicked |-> FALSE,
          self |-> [self EXCEPT !.steps = cut_steps],
          ret |-> Some(APFrustrum(self.output_aabb, self.recursion_dimension,
                                  self.side, self.steps - cut_steps))]

\* A mutation of time_cut: the tail gets the cut's steps, not the remaining ones.
time_cut_tail_steps(self, cut_steps, slopes, dbg) ==
    IF cut_steps >= self.steps
    THEN [panicked |-> FALSE, self |-> self, ret |-> None]
    ELSE LET next_frustrum == APFrustrum(self.output_aabb, self.recursion_dimension,
                                         self.side, cut_steps)
         IN  [panicked |-> FALSE,
              self |-> [self EXCEPT !.output_aabb = input_aabb(next_frustrum, slopes),
                                    !.steps = cut_steps],
              ret |-> Some(next_frustrum)]

\* A mutation of time_cut: a cut at exactly the frustrum's steps is carried out.
time_cut_at_steps(self, cut_steps, slopes, dbg) ==
    IF dbg /\ ~(cut_steps <= self.steps)
    THEN [panicked |-> TRUE, self |-> self, ret |-> None]
    ELSE IF cut_steps > self.steps
    THEN [panicked |-> FALSE, self |-> self, ret |-> None]
    ELSE LET next_frustrum == APFrustrum(self.output_aabb, self.recursion_dimension,
                                         self.side, self.steps - cut_steps)
         IN  [panicked |-> FALSE,
              self |-> [self EXCEPT !.output_aabb = input_aabb(next_frustrum, slopes),
                                    !.steps = cut_steps],
              ret |-> Some(next_frustrum)]

\* time_cut mutates self into the head and returns the tail.  The debug
\* assertion cut_steps <= steps fails in a build with debug assertions.
time_cut(self, cut_steps, slopes, dbg) ==
    IF dbg /\ ~(cut_steps <= self.steps)
    THEN [panicked |-> TRUE, self |-> self, ret |-> None]
    ELSE IF cut_steps >= self.steps
    THEN [panicked |-> FALSE, self |-> self, ret |-> None]
    ELSE LET remaining_steps == self.steps - cut_steps
             next_frustrum == APFrustrum(self.output_aabb, self.recursion_dimension,
                                         self.side, remaining_steps)
         IN  [panicked |-> FALSE,
              self |-> [self EXCEPT !.output_aabb = input_aabb(next_frustrum, slopes),
                                    !.steps = cut_steps],
              ret |-> Some(next_frustrum)]

\* periodic_solve_output: boundary_sides is computed and dropped; the
\* function returns output_aabb.
periodic_solve_output(self, slopes) == self.output_aabb

\* remainder at the top of iteration d of decompose's loop (d > recursion_dimension)
decompose_remainder(self, d) ==
    LET rd == self.recursion_dimension
        oi == outer_index(self.side)
    IN  [e \in DOMAIN self.output_aabb |-> [s \in 0..1 |->
            IF e = rd
            THEN IF s = oi
                 THEN self.output_aabb[e][s] + outer_coef(self.side) * self.steps
                 ELSE self.output_aabb[e][s]
            ELSE IF e > rd /\ e < d
            THEN IF s = 0 THEN self.output_aabb[e][0] + self.steps
                          ELSE self.output_aabb[e][1] - self.steps
            ELSE self.output_aabb[e][s]]]

\* A mutation of decompose: the slabs reach steps cells past their face
\* (i_steps is not one less than steps).
decompose_whole_steps(self) ==
    LET i_steps == self.steps
        rd == self.recursion_dimension
        outer_bound == self.output_aabb[rd][outer_index(self.side)]
        outer_aabb == [self.output_aabb EXCEPT ![rd][inner_index(self.side)] =
                          outer_bound + outer_coef(self.side) * i_steps]
        lower(d) ==
            LET remainder == decompose_remainder(self, d)
                min_aabb == [remainder EXCEPT ![d][1] = remainder[d][0] + i_steps]
                max_aabb == [remainder EXCEPT ![d][0] = remainder[d][1] - i_steps]
            IN  <<APFrustrum(min_aabb, d, "Min", self.steps),
                  APFrustrum(max_aabb, d, "Max", self.steps)>>
        n == Cardinality(DOMAIN self.output_aabb) - 1 - rd
    IN  [i \in 1..(1 + 2 * n) |->
            IF i = 1
            THEN APFrustrum(outer_aabb, rd, self.side, self.steps)
            ELSE lower(rd + 1 + ((i - 2) \div 2))[1 + ((i - 2) % 2)]]

decompose(self) ==
    LET i_steps == self.steps - 1
        rd == self.recursion_dimension
        outer_bound == self.output_aabb[rd][outer_index(self.side)]
        outer_aabb == [self.output_aabb EXCEPT ![rd][inner_index(self.side)] =
                          outer_bound + outer_coef(self.side) * i_steps]
        lower(d) ==
            LET remainder == decompose_remainder(self, d)
                min_aabb == [remainder EXCEPT ![d][1] = remainder[d][0] + i_steps]
                max_aabb == [remainder EXCEPT ![d][0] = remainder[d][1] - i_steps]
            IN  <<APFrustrum(min_aabb, d, "Min", self.steps),
                  APFrustrum(max_aabb, d, "Max", self.steps)>>
        n == Cardinality(DOMAIN self.output_aabb) - 1 - rd
    IN  [i \in 1..(1 + 2 * n) |->
            IF i = 1
            THEN APFrustrum(outer_aabb, rd, self.side, self.steps)
            ELSE lower(rd + 1 + ((i - 2) \div 2))[1 + ((i - 2) % 2)]]

\* A mutation of out_of_bounds_cut: the steps are not decremented.
out_of_bounds_cut_keep_steps(self, slopes, global_aabb_, dbg) ==
    LET input_aabb_ == input_aabb(self, slopes)
    IN  IF \E d \in DOMAIN input_aabb_ : input_aabb_[d][0] < global_aabb_[d][0]
                                          \/ input_aabb_[d][1] > global_aabb_[d][1]
        THEN [panicked |-> FALSE, self |-> self,
              ret |-> Some([d \in DOMAIN input_aabb_ |-> [s \in 0..1 |->
                        IF s = 0
                        THEN IF input_aabb_[d][0] < global_aabb_[d][0]
                             THEN 0 ELSE sloped_sides(self)[d][0]
                        ELSE IF input_aabb_[d][1] > global_aabb_[d][1]
                             THEN 0 ELSE sloped_sides(self)[d][1]]])]
        ELSE [panicked |-> FALSE, self |-> self, ret |-> None]

\* out_of_bounds_cut: steps is a usize, so steps -= 1 at 0 panics in a build
\* that checks overflow and wraps to usize::MAX (written -1 here) otherwise.
out_of_bounds_cut(self, slopes, global_aabb_, dbg) ==
    LET input_aabb_ == input_aabb(self, slopes)
        sloped == sloped_sides(self)
        remainder_slopes ==
            [d \in DOMAIN input_aabb_ |-> [s \in 0..1 |->
                IF s = 0
                THEN IF input_aabb_[d][0] < global_aabb_[d][0] THEN 0 ELSE sloped[d][0]
                ELSE IF input_aabb_[d][1] > global_aabb_[d][1] THEN 0 ELSE sloped[d][1]]]
        out_of_bounds ==
            \E d \in DOMAIN input_aabb_ : input_aabb_[d][0] < global_aabb_[d][0]
                                          \/ input_aabb_[d][1] > global_aabb_[d][1]
    IN  IF out_of_bounds
        THEN IF self.steps = 0 /\ dbg
             THEN [panicked |-> TRUE, self |-> self, ret |-> None]
             ELSE [panicked |-> FALSE, self |-> [self EXCEPT !.steps = self.steps - 1],
                   ret |-> Some(remainder_slopes)]
        ELSE [panicked |-> FALSE, self |-> self, ret |-> None]

Frustrums(lo, hi) ==
    {APFrustrum(b, d, sd, st) :
        b \in ValidBoxes(lo, hi), d \in Dims, sd \in {"Min", "Max"}, st \in 1..MaxSteps}

\* Slopes of sample stencils: one cell on every face, and two stencils whose
\* reach differs from face to face (the second reaches nowhere on some faces).
SlopeSamples ==
    {from_element(1),
     [d \in Dims |-> [s \in 0..1 |-> IF d = s THEN 1 ELSE 2]],
     [d \in Dims |-> [s \in 0..1 |-> IF d = 0 THEN s ELSE 2 * (1 - s)]]}

ZeroFrustrum == APFrustrum(from_element(0), 0, "Min", 1)

Interval(lo, hi) == [s \in 0..1 |-> IF s = 0 THEN lo ELSE hi]
Rect(x0, x1, y0, y1) == [d \in 0..1 |-> IF d = 0 THEN Interval(x0, x1) ELSE Interval(y0, y1)]

\* the frustrum and the planner parameters of the unit test decompose_3d
Decompose3dFrustrum ==
    APFrustrum([d \in 0..2 |-> IF d = 0 THEN Interval(0, 37) ELSE Interval(0, 60)],
               0, "Min", 12)
Decompose3dCutoff == 40

\* the frustrums of the unit tests decompose, time_cut_test and decompose_3d
\* (all with slopes of 1), and the frustrum with the output box
\* [20,50] x [0,200]
FrustrumTests ==
    {[stencil_slopes |-> bounds_from_element(DOMAIN f.output_aabb, 1), frustrum |-> f] :
        f \in {APFrustrum([d \in {0} |-> Interval(0, 10)], 0, "Min", 2),
               APFrustrum([d \in {0} |-> Interval(0, 10)], 0, "Max", 2),
               APFrustrum(Rect(0, 50, 0, 200), 0, "Min", 20),
               APFrustrum(Rect(0, 50, 0, 200), 0, "Max", 20),
               APFrustrum(Rect(0, 200, 0, 50), 1, "Min", 20),
               APFrustrum(Rect(0, 200, 0, 50), 1, "Max", 20),
               APFrustrum(Rect(20, 50, 0, 200), 0, "Min", 20),
               APFrustrum(Rect(20, 40, 20, 40), 1, "Max", 10),
               Decompose3dFrustrum}}

----------------------------------------------------------------------------
(* Sizes (util/aabb.rs) *)

exclusive_bounds(a) == [d \in DOMAIN a |-> a[d][1] - a[d][0] + 1]

RECURSIVE Product(_, _)
Product(f, S) ==
    IF S = {} THEN 1
    ELSE LET d == CHOOSE x \in S : TRUE IN f[d] * Product(f, S \ {d})

buffer_size(a) == Product(exclusive_bounds(a), DOMAIN a)

----------------------------------------------------------------------------
(* The planner.  APPlanner, find_periodic_solve and the plan types are used *)
(* by ap_solver.rs and the tests but are not among the source files: they   *)
(* follow spec 3 (PlanNode, Plan) and 4.3.  A node is named by its path     *)
(* from the root: <<>> is the Repeat node, <<1>> its node, <<2>> its next;  *)
(* under a periodic node p, Append(p, i) is boundary node i (i >= 1) and    *)
(* Append(p, 0) the time-cut successor.                                     *)

PeriodicSolveNode(input_aabb_, output_aabb, steps, boundary_nodes, time_cut_) ==
    [kind |-> "PeriodicSolve", input_aabb |-> input_aabb_, output_aabb |-> output_aabb,
     steps |-> steps, boundary_nodes |-> boundary_nodes, time_cut |-> time_cut_]

DirectSolveNode(input_aabb_, output_aabb, sloped_sides_, steps) ==
    [kind |-> "DirectSolve", input_aabb |-> input_aabb_, output_aabb |-> output_aabb,
     sloped_sides |-> sloped_sides_, steps |-> steps]

\* "almost out of bounds" (spec 3): init_input_aabb is the frustrum's input
\* box, input_aabb that box with its outer faces clamped to the grid
AOBDirectSolveNode(init_input_aabb, input_aabb_, output_aabb, sloped_sides_, steps) ==
    [kind |-> "AOBDirectSolve", init_input_aabb |-> init_input_aabb,
     input_aabb |-> input_aabb_, output_aabb |-> output_aabb,
     sloped_sides |-> sloped_sides_, steps |-> steps]

RepeatNode(node, n, next) ==
    [kind |-> "Repeat", node |-> node, n |-> n, next |-> next]

\* the box shrunk by k * slope on every face: where a periodic solve of k
\* steps on the box is valid
shrink(a, k, slopes) ==
    [d \in DOMAIN a |-> [s \in 0..1 |->
        IF s = 0 THEN a[d][0] + k * slopes[d][0] ELSE a[d][1] - k * slopes[d][1]]]

MaxOf(S) == CHOOSE x \in S : \A y \in S : y <= x

\* find_periodic_solve (spec 4.3): none below the cutoff; else the largest
\* k <= max_steps whose valid interior keeps ratio of the input's volume
find_periodic_solve(input_aabb_, params) ==
    LET sizes == exclusive_bounds(input_aabb_)
        limit == IF params.max_steps = None
                 THEN MaxOf({sizes[d] : d \in DOMAIN sizes})
                 ELSE params.max_steps[1]
        ok(k) == /\ check_validity(shrink(input_aabb_, k, params.stencil_slopes))
                 /\ buffer_size(shrink(input_aabb_, k, params.stencil_slopes)) * params.ratio_den
                       >= params.ratio_num * buffer_size(input_aabb_)
        cand == {k \in 1..limit : ok(k)}
    IN  IF (\E d \in DOMAIN sizes : sizes[d] < params.cutoff) \/ cand = {}
        THEN None
        ELSE Some([output_aabb |-> shrink(input_aabb_, MaxOf(cand), params.stencil_slopes),
                   steps |-> MaxOf(cand)])

\* the box with the faces that lie outside the grid moved onto the grid's
clamp(aabb, global_aabb_) ==
    [d \in DOMAIN aabb |-> [s \in 0..1 |->
        IF s = 0
        THEN IF aabb[d][0] < global_aabb_[d][0] THEN global_aabb_[d][0] ELSE aabb[d][0]
        ELSE IF aabb[d][1] > global_aabb_[d][1] THEN global_aabb_[d][1] ELSE aabb[d][1]]]

\* The node for a frustrum that out_of_bounds_cut trimmed (spec 4.3, step 3,
\* first case): frustrum is the frustrum before the cut, cut the result of
\* out_of_bounds_cut on it
plan_aob(frustrum, cut, params, global_aabb_) ==
    LET init_input_aabb == input_aabb(frustrum, params.stencil_slopes)
    IN  AOBDirectSolveNode(init_input_aabb, clamp(init_input_aabb, global_aabb_),
                           frustrum.output_aabb, cut.ret[1], cut.self.steps)

\* The node for a boundary frustrum (spec 4.3, step 3): a nested periodic
\* solve over its input box when one is found, with the frustrum's
\* decompose() as boundary and the time cut's tail as successor; else a
\* direct solve.
RECURSIVE plan_frustrum(_, _)
plan_frustrum(frustrum, params) ==
    LET in_aabb == input_aabb(frustrum, params.stencil_slopes)
        solve == find_periodic_solve(in_aabb, [params EXCEPT !.max_steps = Some(frustrum.steps)])
    IN  IF solve = None
        THEN DirectSolveNode(in_aabb, frustrum.output_aabb, sloped_sides(frustrum),
                             frustrum.steps)
        ELSE LET cut == time_cut(frustrum, solve[1].steps, params.stencil_slopes, FALSE)
                 kids == decompose(cut.self)
             IN  PeriodicSolveNode(in_aabb, cut.self.output_aabb, solve[1].steps,
                    [i \in DOMAIN kids |-> plan_frustrum(kids[i], params)],
                    IF cut.ret = None THEN None
                    ELSE Some(plan_frustrum(cut.ret[1], params)))

\* The periodic node for the whole grid: the boundary is the decomposition
\* of the grid around the valid interior, one frustrum per slab.
plan_central(aabb, params, max_steps) ==
    LET solve == find_periodic_solve(aabb, [params EXCEPT !.max_steps = max_steps])[1]
        slabs == decomposition(aabb, solve.output_aabb, FALSE).boxes
        D == Cardinality(DOMAIN aabb)
        side(i) == IF (i - 1) % 2 = 0 THEN "Min" ELSE "Max"
    IN  PeriodicSolveNode(aabb, solve.output_aabb, solve.steps,
            [i \in 1..(2 * D) |->
                plan_frustrum(APFrustrum(slabs[(i - 1) \div 2][outer_index(side(i))],
                                         (i - 1) \div 2, side(i), solve.steps), params)],
            None)

\* The root (spec 4.3, Repeat node): n = total_steps / k, next planned for
\* total_steps mod k, None when total_steps is a multiple of k.
plan_root(aabb, total, params) ==
    LET central == plan_central(aabb, params, None)
        k == central.steps
    IN  RepeatNode(central, total \div k,
                   IF total % k = 0 THEN None
                   ELSE Some(plan_central(aabb, params, Some(total % k))))

\* Plan { nodes, root }: the nodes by id, each holding the ids of its children
RECURSIVE flatten(_, _)
flatten(tree, path) ==
    IF tree.kind = "Repeat"
    THEN {<<path, [tree EXCEPT !.node = Append(path, 1),
                               !.next = IF tree.next = None THEN None
                                        ELSE Some(Append(path, 2))]>>}
         \cup flatten(tree.node, Append(path, 1))
         \cup (IF tree.next = None THEN {} ELSE flatten(tree.next[1], Append(path, 2)))
    ELSE IF tree.kind = "PeriodicSolve"
    THEN {<<path, [tree EXCEPT !.boundary_nodes =
                                    [i \in DOMAIN tree.boundary_nodes |-> Append(path, i)],
                               !.time_cut = IF tree.time_cut = None THEN None
                                            ELSE Some(Append(path, 0))]>>}
         \cup UNION {flatten(tree.boundary_nodes[i], Append(path, i)) :
                        i \in DOMAIN tree.boundary_nodes}
         \cup (IF tree.time_cut = None THEN {}
               ELSE flatten(tree.time_cut[1], Append(path, 0)))
    ELSE {<<path, tree>>}

APPlan(tree) ==
    LET pairs == flatten(tree, <<>>)
    IN  [nodes |-> [id \in {pr[1] : pr \in pairs} |->
                       (CHOOSE pr \in pairs : pr[1] = id)[2]],
         root |-> <<>>]

----------------------------------------------------------------------------
(* The scratch descriptors.  APScratchBuilder is not among the source files: *)
(* the layout follows spec 4.4.  The boundary nodes of a periodic node get   *)
(* their allotments (two real buffers of input_aabb.buffer_size()) end to    *)
(* end; what lies below each of them starts at the mark after the last       *)
(* allotment, the mark being reset between the subtrees; a time-cut          *)
(* successor takes its predecessor's output buffer as its input buffer.      *)

ScratchDescriptor(input_offset, output_offset, real_buffer_size) ==
    [input_offset |-> input_offset, output_offset |-> output_offset,
     real_buffer_size |-> real_buffer_size]

RECURSIVE allotment_offset(_, _, _, _)
allotment_offset(nodes, kids, base, i) ==
    IF i = 1 THEN base
    ELSE allotment_offset(nodes, kids, base, i - 1)
            + 2 * buffer_size(nodes[kids[i - 1]].input_aabb)

RECURSIVE place_below(_, _, _, _)
place_below(nodes, id, base, own) ==
    LET node == nodes[id]
        kids == node.boundary_nodes
        size(i) == buffer_size(nodes[kids[i]].input_aabb)
        off(i) == allotment_offset(nodes, kids, base, i)
        mark == off(Len(kids) + 1)
        kid_descriptor(i) == ScratchDescriptor(off(i), off(i) + size(i), size(i))
        next_descriptor == ScratchDescriptor(own.output_offset, own.input_offset,
                                             own.real_buffer_size)
    IN  {<<id, own>>}
        \cup UNION {IF nodes[kids[i]].kind = "PeriodicSolve"
                    THEN place_below(nodes, kids[i], mark, kid_descriptor(i))
                    ELSE {<<kids[i], kid_descriptor(i)>>} : i \in DOMAIN kids}
        \cup (IF node.time_cut = None THEN {}
              ELSE IF nodes[node.time_cut[1]].kind = "PeriodicSolve"
              THEN place_below(nodes, node.time_cut[1], base, next_descriptor)
              ELSE {<<node.time_cut[1], next_descriptor>>})

\* the descriptor of a leaf (spec 4.4): two real buffers of
\* input_aabb.buffer_size(), end to end from base
leaf_descriptor(node, base) ==
    ScratchDescriptor(base, base + buffer_size(node.input_aabb),
                      buffer_size(node.input_aabb))

APScratchBuilder(pl) ==
    LET root == pl.nodes[pl.root]
        own == ScratchDescriptor(0, 0, 0)
        pairs == {<<pl.root, own>>}
                 \cup place_below(pl.nodes, root.node, 0, own)
                 \cup (IF root.next = None THEN {}
                       ELSE place_below(pl.nodes, root.next[1], 0, own))
    IN  [id \in DOMAIN pl.nodes |-> (CHOOSE pr \in pairs : pr[1] = id)[2]]

----------------------------------------------------------------------------
(* Domains.  domain/ is not among the source files: spec 3 (SliceDomain), a  *)
(* view { aabb, buffer } with buffer.len() >= aabb.buffer_size().  The model *)
(* keeps where the buffer lies and how long it is, and, in place of the      *)
(* cell values, the time of the field the domain holds (Stale: none).        *)

Stale == 0 - 1

Buffer(arena, offset, len) == [arena |-> arena, offset |-> offset, len |-> len]

SliceDomain(aabb, buffer, time) == [aabb |-> aabb, buffer |-> buffer, time |-> time]

fits(dom, aabb) == dom.buffer.len >= buffer_size(aabb)

\* the same buffer read through another box holds no field
set_aabb(dom, aabb) ==
    [dom EXCEPT !.aabb = aabb, !.time = IF aabb = dom.aabb THEN dom.time ELSE Stale]

par_from_superset(dst, src) == [dst EXCEPT !.time = src.time]

\* the cells par_set_subdomain writes in the destination: those of the source
par_set_subdomain(dst, src) == src.aabb

swap(io) == [input_domain |-> io.output_domain, output_domain |-> io.input_domain]

\* ConvolutionStore is not among the source files (spec 4.5, step 2): the
\* periodic solve of all the steps of the node, from in to out
convolution_apply(input, output, steps) ==
    [output EXCEPT !.time = IF input.time = Stale THEN Stale ELSE input.time + steps]

\* where the periodic solve on the box is the aperiodic one
valid_interior(node, slopes) == shrink(node.input_aabb, node.steps, slopes)

----------------------------------------------------------------------------
(* domain/bc/constant.rs, par_stencil.rs, solver/trapezoid.rs *)

ConstantCheck_new(value, bound) == [value |-> value, bound |-> bound]

\* A mutation of check: a coordinate on the bound counts as outside.
ConstantCheck_check_strict(self, coord) ==
    IF \E d \in DOMAIN self.bound :
          coord[d] <= self.bound[d][0] \/ coord[d] >= self.bound[d][1]
    THEN Some(self.value) ELSE None

ConstantCheck_check(self, coord) ==
    IF \E d \in DOMAIN self.bound :
          coord[d] < self.bound[d][0] \/ coord[d] > self.bound[d][1]
    THEN Some(self.value) ELSE None

\* par_stencil::apply.  gather_args is not among the source files (spec 4.6):
\* an argument outside the input's box comes from the oracle, which has none
\* for a coordinate inside the grid.
par_stencil_apply(bc_bound, slopes, input, output, dbg) ==
    LET reach == add_bounds_diff(output.aabb,
                    [d \in DOMAIN slopes |-> [s \in 0..1 |->
                        IF s = 0 THEN -slopes[d][0] ELSE slopes[d][1]]])
        missing == \E c \in coord_iter(reach) :
                      ~contains(input.aabb, c) /\ ConstantCheck_check(ConstantCheck_new("value", bc_bound), c) = None
    IN  [panicked |-> (dbg /\ ~contains_aabb(input.aabb, output.aabb)) \/ missing,
         output |-> [output EXCEPT !.time = IF input.time = Stale THEN Stale
                                            ELSE input.time + 1]]

RECURSIVE trapezoid_loop(_, _, _, _, _, _, _, _)
trapezoid_loop(bc_bound, slopes, input, output, trapezoid_slopes, output_box, t, dbg) ==
    IF t = 0
    THEN [panicked |-> FALSE, input_domain |-> output, output_domain |-> input,
          trace |-> <<>>]
    ELSE LET box == add_bounds_diff(output_box, trapezoid_slopes)
             out == set_aabb(output, box)
             r == par_stencil_apply(bc_bound, slopes, input, out, dbg)
             \* what this step read and wrote: the input domain's box, the output box
             step == [input_aabb |-> input.aabb, output_box |-> box]
         IN  IF (dbg /\ buffer_size(input.aabb) < buffer_size(box))
                \/ ~check_validity(box) \/ ~fits(output, box) \/ r.panicked
             THEN [panicked |-> TRUE, input_domain |-> input, output_domain |-> output,
                   trace |-> <<step>>]
             ELSE LET rest == trapezoid_loop(bc_bound, slopes, r.output, input,
                                             trapezoid_slopes, box, t - 1, dbg)
                  IN  [rest EXCEPT !.trace = <<step>> \o @]

\* a trapezoid whose output box never moves
trapezoid_apply_no_shrink(bc_bound, slopes, input, output, sloped_sides_, steps, dbg) ==
    [panicked |-> FALSE, input_domain |-> input,
     output_domain |-> [output EXCEPT !.time = IF input.time = Stale THEN Stale
                                               ELSE input.time + steps],
     trace |-> <<>>]

\* A mutation of trapezoid_apply: the min column is negated, not the max one,
\* so that the output box moves outwards on the min faces.
trapezoid_apply_negate_min(bc_bound, slopes, input, output, sloped_sides_, steps, dbg) ==
    IF input.aabb # output.aabb
    THEN [panicked |-> TRUE, input_domain |-> input, output_domain |-> output,
          trace |-> <<>>]
    ELSE trapezoid_loop(bc_bound, slopes, input, output,
            [d \in DOMAIN slopes |-> [s \in 0..1 |->
                IF s = 0 THEN -(slopes[d][0] * sloped_sides_[d][0])
                ELSE slopes[d][1] * sloped_sides_[d][1]]],
            input.aabb, steps, dbg)

\* A mutation of trapezoid_apply: no swap after the loop.
trapezoid_apply_no_last_swap(bc_bound, slopes, input, output, sloped_sides_, steps, dbg) ==
    LET r == trapezoid_loop(bc_bound, slopes, input, output,
                [d \in DOMAIN slopes |-> [s \in 0..1 |->
                    IF s = 0 THEN slopes[d][0] * sloped_sides_[d][0]
                    ELSE -(slopes[d][1] * sloped_sides_[d][1])]],
                input.aabb, steps, dbg)
    IN  [r EXCEPT !.input_domain = r.output_domain, !.output_domain = r.input_domain]

trapezoid_apply(bc_bound, slopes, input, output, sloped_sides_, steps, dbg) ==
    IF input.aabb # output.aabb
    THEN [panicked |-> TRUE, input_domain |-> input, output_domain |-> output,
          trace |-> <<>>]
    ELSE trapezoid_loop(bc_bound, slopes, input, output,
            [d \in DOMAIN slopes |-> [s \in 0..1 |->
                IF s = 0 THEN slopes[d][0] * sloped_sides_[d][0]
                ELSE -(slopes[d][1] * sloped_sides_[d][1])]],
            input.aabb, steps, dbg)

----------------------------------------------------------------------------
(* fft_solver/ap_solver.rs: the calls of the executor *)

Front(id) == SubSeq(id, 1, Len(id) - 1)

\* the nodes the root drives, the time-cut successors, the boundary nodes
IsRootCall(id) == Len(id) = 1
IsTimeCut(id) == Len(id) > 1 /\ id[Len(id)] = 0
IsBoundary(id) == Len(id) > 1 /\ id[Len(id)] # 0

\* whose (input_domain, output_domain) a call works on: the caller's for the
\* nodes solve_root drives, the predecessor's for a time-cut successor, its
\* own pair from the scratch space for a boundary node
RECURSIVE Owner(_)
Owner(id) ==
    IF Len(id) <= 1 THEN <<>>
    ELSE IF id[Len(id)] = 0 THEN Owner(Front(id))
    ELSE id

\* the resize argument: false from solve_root, true from
\* unknown_solve_preallocated_io and periodic_solve_allocate_io
resize(id) == ~IsRootCall(id)

\* a loop that runs once more
loop_continues_inclusive(i, n) == i <= n

\* for _ in 0..repeat_solve.n
loop_continues(i, n) == i < n

\* a solve_root that leaves the domains as they are when there is no next
solve_root_no_next_keep(io) == io

\* solve_root without a next node
solve_root_no_next(io) == swap(io)

\* a scope that returns at once
scope_not_joined(node, pcs) == TRUE

\* rayon::scope returns when every spawned boundary solve has returned
scope_joined(node, pcs) ==
    \A i \in DOMAIN node.boundary_nodes : pcs[node.boundary_nodes[i]] = "done"

get_input_output(descriptor, aabb, dbg) ==
    [panicked |-> dbg /\ descriptor.real_buffer_size < buffer_size(aabb),
     input_domain |-> SliceDomain(aabb,
        Buffer("scratch", descriptor.input_offset, descriptor.real_buffer_size), Stale),
     output_domain |-> SliceDomain(aabb,
        Buffer("scratch", descriptor.output_offset, descriptor.real_buffer_size), Stale)]

\* a copy-in that takes any buffer for the box
periodic_copy_in_no_size(node, io) ==
    LET in0 == io.output_domain
        out0 == io.input_domain
        in1 == par_from_superset(set_aabb(in0, node.input_aabb), out0)
    IN  [panicked |-> ~contains_aabb(out0.aabb, node.input_aabb),
         input_domain |-> in1,
         output_domain |-> set_aabb(out0, node.input_aabb)]

\* periodic_solve_preallocated_io, up to the convolution
periodic_copy_in(node, io) ==
    LET in0 == io.output_domain
        out0 == io.input_domain
        in1 == par_from_superset(set_aabb(in0, node.input_aabb), out0)
    IN  [panicked |-> ~fits(in0, node.input_aabb) \/ ~fits(out0, node.input_aabb)
                      \/ ~contains_aabb(out0.aabb, node.input_aabb),
         input_domain |-> in1,
         output_domain |-> set_aabb(out0, node.input_aabb)]

\* periodic_solve_preallocated_io, if resize
periodic_resize(node, io) ==
    LET in0 == io.output_domain
        out0 == io.input_domain
        out1 == par_from_superset(set_aabb(out0, node.output_aabb), in0)
    IN  [panicked |-> ~fits(out0, node.output_aabb)
                      \/ ~contains_aabb(in0.aabb, node.output_aabb),
         input_domain |-> set_aabb(in0, node.output_aabb),
         output_domain |-> out1]

\* direct_solve_preallocated_io; DirectFrustrumSolver is not among the
\* source files (spec 4.6): it applies the trapezoid
direct_solve_preallocated_io(node, io, bc_bound, slopes, dbg) ==
    LET in0 == io.output_domain
        out0 == io.input_domain
        in1 == par_from_superset(set_aabb(in0, node.input_aabb), out0)
        out1 == set_aabb(out0, node.input_aabb)
        r == trapezoid_apply(bc_bound, slopes, in1, out1, node.sloped_sides,
                             node.steps, dbg)
    IN  IF (dbg /\ ~contains_aabb(io.input_domain.aabb, node.input_aabb))
           \/ ~contains_aabb(out0.aabb, node.input_aabb)
           \/ ~fits(in0, node.input_aabb) \/ ~fits(out0, node.input_aabb)
        THEN [panicked |-> TRUE, input_domain |-> io.input_domain,
              output_domain |-> io.output_domain]
        ELSE [r EXCEPT !.panicked = r.panicked
                          \/ (dbg /\ r.output_domain.aabb # node.output_aabb)]

\* the scratch ranges a boundary node holds while it runs
scratch_ranges(descriptor) ==
    [input |-> descriptor.input_offset ..
                  (descriptor.input_offset + descriptor.real_buffer_size - 1),
     output |-> descriptor.output_offset ..
                  (descriptor.output_offset + descriptor.real_buffer_size - 1)]

----------------------------------------------------------------------------
(* The AABB specification: Init draws the boxes, the action decomposes.     *)
(* A debug assertion is compiled in or not, depending on the build: an      *)
(* action that reaches one takes either outcome (dbg).                      *)

FrustrumIdle ==
    /\ stencil_slopes = from_element(0)
    /\ orig = ZeroFrustrum
    /\ chain = <<>>
    /\ last = [op |-> "none", panicked |-> FALSE]
    /\ global_aabb = from_element(0)

TrapezoidIdle == trapezoid = None

FFTIdle == plan_library = None

ExecIdle ==
    /\ planner_params = None
    /\ plan = None
    /\ node_scratch_descriptors = None
    /\ total_steps = 0
    /\ pc = None
    /\ iter = 0
    /\ applies = 0
    /\ domains = None
    /\ writes = None
    /\ events = None
    /\ panic = ""

AABBIdle ==
    /\ outer = from_element(0)
    /\ center = from_element(0)
    /\ decomp = None
    /\ wrapped = None
    /\ built = None

InitAABB ==
    /\ outer \in ValidBoxes(-NegExtent, MaxCoord)
    /\ center \in {c \in ValidBoxes(-NegExtent, MaxCoord) : contains_aabb(outer, c)}
    /\ decomp = None
    /\ wrapped = None
    /\ built = None
    /\ FrustrumIdle
    /\ TrapezoidIdle
    /\ FFTIdle
    /\ ExecIdle

Decomposition ==
    /\ decomp = None
    /\ \E dbg \in BOOLEAN : decomp' = Some(decomposition(outer, center, dbg))
    /\ UNCHANGED <<outer, center, wrapped, built, frustrumVars, trapezoidVars, fftVars, execVars>>

NextAABB == Decomposition

SpecAABB == InitAABB /\ [][NextAABB]_vars

----------------------------------------------------------------------------
(* The periodic coordinate specification: Init draws a box, the action      *)
(* wraps a coordinate that lies at most one box away from it.                *)

InitPeriodic ==
    /\ outer \in ValidBoxes(-NegExtent, MaxCoord)
    /\ center = from_element(0)
    /\ decomp = None
    /\ wrapped = None
    /\ built = None
    /\ FrustrumIdle
    /\ TrapezoidIdle
    /\ FFTIdle
    /\ ExecIdle

\* the coordinates no more than one box away from the box
OneBoxAway(a) ==
    {c \in [DOMAIN a -> (2 * (-NegExtent) - MaxCoord - 1)..(2 * MaxCoord + NegExtent + 1)] :
        \A d \in DOMAIN a :
            /\ c[d] >= a[d][0] - exclusive_bounds(a)[d]
            /\ c[d] <= a[d][1] + exclusive_bounds(a)[d]}

PeriodicCoord(coord) ==
    /\ wrapped = None
    /\ wrapped' = Some([coord |-> coord, ret |-> periodic_coord(outer, coord)])
    /\ UNCHANGED <<outer, center, decomp, built, frustrumVars, trapezoidVars, fftVars, execVars>>

NextPeriodic == \E coord \in OneBoxAway(outer) : PeriodicCoord(coord)

SpecPeriodic == InitPeriodic /\ [][NextPeriodic]_vars

----------------------------------------------------------------------------
(* The bounds specification: Init draws the two corners of a box, valid or   *)
(* not, and the value of a constant boundary condition; the actions build    *)
(* the box with either constructor, and look coordinates up in a             *)
(* ConstantCheck on the box.                                                 *)

Corners == [Dims -> 0..MaxCoord]

\* the constants of the boundary condition (constant.rs, test: -1.0)
CheckValues == {0 - 1, 7}

\* the coordinates looked up: the box of the corners and one cell around it
CheckCoords == [Dims -> (0 - 1)..(MaxCoord + 1)]

InitBounds ==
    /\ outer = from_element(0)
    /\ center = from_element(0)
    /\ decomp = None
    /\ wrapped = None
    /\ \E min \in Corners, max \in Corners, value \in CheckValues :
          built = [op |-> "args", min |-> min, max |-> max, value |-> value,
                   panicked |-> FALSE]
    /\ FrustrumIdle
    /\ TrapezoidIdle
    /\ FFTIdle
    /\ ExecIdle

\* AABB::new(bounds)
New ==
    /\ built.op = "args"
    /\ built' = [built EXCEPT !.op = "new"] @@
                 [aabb |-> AABB_new([d \in Dims |-> [s \in 0..1 |->
                              IF s = 0 THEN built.min[d] ELSE built.max[d]]])]
    /\ UNCHANGED <<outer, center, decomp, wrapped, frustrumVars, trapezoidVars, fftVars, execVars>>

\* AABB::from_mm(min, max)
FromMM(dbg) ==
    /\ built.op = "args"
    /\ LET r == from_mm(built.min, built.max, dbg)
       IN  built' = [built EXCEPT !.op = "from_mm", !.panicked = r.panicked] @@
                    [aabb |-> r.aabb, dbg |-> dbg]
    /\ UNCHANGED <<outer, center, decomp, wrapped, frustrumVars, trapezoidVars, fftVars, execVars>>

\* ConstantCheck::new(value, bound), on a box a constructor returned
ConstantCheckNew ==
    /\ built.op \in {"new", "from_mm"}
    /\ ~built.panicked
    /\ built' = [op |-> "check_new", panicked |-> FALSE, value |-> built.value,
                 check |-> ConstantCheck_new(built.value, built.aabb)]
    /\ UNCHANGED <<outer, center, decomp, wrapped, frustrumVars, trapezoidVars, fftVars, execVars>>

\* ConstantCheck::check(coord)
ConstantCheckCheck(coord) ==
    /\ built.op = "check_new"
    /\ built' = [built EXCEPT !.op = "check"] @@
                 [coord |-> coord, ret |-> ConstantCheck_check(built.check, coord)]
    /\ UNCHANGED <<outer, center, decomp, wrapped, frustrumVars, trapezoidVars, fftVars, execVars>>

NextBounds ==
    \/ New
    \/ \E dbg \in BOOLEAN : FromMM(dbg)
    \/ ConstantCheckNew
    \/ \E coord \in CheckCoords : ConstantCheckCheck(coord)

SpecBounds == InitBounds /\ [][NextBounds]_vars

----------------------------------------------------------------------------
(* solver/fft_plan.rs.  The FFT library (fftw) is outside the repository:    *)
(* R2CPlan64::aligned and C2RPlan64::aligned return an error when the        *)
(* library makes no plan, as it does under the WisdomOnly flag for a size it *)
(* has no wisdom for.  A plan is told from another by the count of plans     *)
(* built when it was made.                                                   *)

PlanTypes == {"Measure", "Patient", "Estimate", "WisdomOnly"}

FFTPlanDescriptor_new(bound) == [bound |-> bound]

\* the library's answer for a size: an error, or a plan
fftw_aligned(plan_size, plan_type, wisdom) ==
    IF plan_type = "WisdomOnly" /\ plan_size \notin wisdom THEN "Err" ELSE "Ok"

\* A mutation of FFTPlan::new: a failure of the library is passed over.
FFTPlan_new_no_unwrap(bound, plan_type, wisdom, n) ==
    [panicked |-> FALSE, plan |-> [size |-> exclusive_bounds(bound), n |-> n]]

\* FFTPlan::new: try_cast::<usize>().unwrap() panics on a negative size, and
\* each unwrap() of a plan panics on the library's error
FFTPlan_new(bound, plan_type, wisdom, n) ==
    LET size == exclusive_bounds(bound)
    IN  [panicked |-> \/ \E d \in DOMAIN size : size[d] < 0
                      \/ fftw_aligned(size, plan_type, wisdom) = "Err",
         plan |-> [size |-> size, n |-> n]]

FFTPlanLibrary_new(plan_type) == [plan_map |-> <<>>, plan_type |-> plan_type]

\* A mutation of get_plan: the key is the size of the box.
get_plan_by_size(self, bound, wisdom, n) ==
    LET key == exclusive_bounds(bound)
        made == FFTPlan_new(bound, self.plan_type, wisdom, n)
        map2 == IF key \in DOMAIN self.plan_map THEN self.plan_map
                ELSE self.plan_map @@ (key :> made.plan)
    IN  IF made.panicked
        THEN [panicked |-> TRUE, self |-> self, ret |-> None]
        ELSE [panicked |-> FALSE, self |-> [self EXCEPT !.plan_map = map2],
              ret |-> Some(map2[key])]

\* get_plan: the argument of or_insert is evaluated before the entry is
\* looked up, so a plan is built on every call, and dropped when the key is
\* there already
get_plan(self, bound, wisdom, n) ==
    LET key == FFTPlanDescriptor_new(bound)
        made == FFTPlan_new(bound, self.plan_type, wisdom, n)
        map2 == IF key \in DOMAIN self.plan_map THEN self.plan_map
                ELSE self.plan_map @@ (key :> made.plan)
    IN  IF made.panicked
        THEN [panicked |-> TRUE, self |-> self, ret |-> None]
        ELSE [panicked |-> FALSE, self |-> [self EXCEPT !.plan_map = map2],
              ret |-> Some(map2[key])]

----------------------------------------------------------------------------
(* The FFT plan specification: Init draws the plan type and the sizes the    *)
(* library has wisdom for; the action asks the plan library for the plan of  *)
(* a box.                                                                    *)

Line(lo, hi) == [d \in 0..0 |-> Interval(lo, hi)]

\* the boxes asked for: of one size at two places, and of other sizes
PlanBoxes ==
    {Line(0, 5), Line(1, 6), Line(0, 6),
     Rect(0, 5, 0, 5), Rect(1, 6, 0, 5), Rect(0, 5, 0, 3)}

PlanSizes == {exclusive_bounds(b) : b \in PlanBoxes}

Wisdoms == {{}, {exclusive_bounds(Line(0, 5)), exclusive_bounds(Rect(0, 5, 0, 5))}, PlanSizes}

InitFFT ==
    /\ AABBIdle
    /\ FrustrumIdle
    /\ TrapezoidIdle
    /\ ExecIdle
    /\ \E plan_type \in PlanTypes, wisdom \in Wisdoms :
          plan_library = [self |-> FFTPlanLibrary_new(plan_type), wisdom |-> wisdom,
                          built |-> 0, requests |-> <<>>, panicked |-> FALSE]

\* FFTPlanLibrary::get_plan(bound)
GetPlan(bound) ==
    /\ ~plan_library.panicked
    /\ Len(plan_library.requests) < MaxRequests
    /\ LET r == get_plan(plan_library.self, bound, plan_library.wisdom,
                         plan_library.built + 1)
       IN  plan_library' =
              [plan_library EXCEPT
                  !.self = r.self,
                  !.built = @ + 1,
                  !.requests = Append(@, [bound |-> bound, ret |-> r.ret,
                                          before |-> plan_library.self]),
                  !.panicked = r.panicked]
    /\ UNCHANGED <<aabbVars, frustrumVars, trapezoidVars, execVars>>

NextFFT == \E bound \in PlanBoxes : GetPlan(bound)

SpecFFT == InitFFT /\ [][NextFFT]_vars

----------------------------------------------------------------------------
(* The frustrum specification: Init draws a frustrum and the stencil slopes; *)
(* the actions cut the frustrum in time, then the returned tail, again and   *)
(* again, and decompose any frustrum of the chain.                           *)

InitFrustrum ==
    /\ AABBIdle
    /\ TrapezoidIdle
    /\ FFTIdle
    /\ ExecIdle
    /\ global_aabb = from_element(0)
    /\ \E t \in FrustrumTests
             \cup {[stencil_slopes |-> slopes, frustrum |-> f] :
                      slopes \in SlopeSamples, f \in Frustrums(0, FMaxCoord)} :
          /\ stencil_slopes = t.stencil_slopes
          /\ orig = t.frustrum
    /\ chain = <<orig>>
    /\ last = [op |-> "none", panicked |-> FALSE]

Running == ~last.panicked

TimeCut(i, cut_steps, dbg) ==
    /\ Running
    /\ Len(chain) < MaxChain
    /\ LET r == time_cut(chain[i], cut_steps, stencil_slopes, dbg)
       IN  /\ last' = [op |-> "time_cut", panicked |-> r.panicked, index |-> i,
                       before |-> chain[i], cut_steps |-> cut_steps,
                       self |-> r.self, ret |-> r.ret]
           /\ chain' = IF r.panicked THEN chain
                       ELSE SubSeq(chain, 1, i - 1) \o <<r.self>> \o r.ret
                            \o SubSeq(chain, i + 1, Len(chain))
    /\ UNCHANGED <<aabbVars, trapezoidVars, fftVars, execVars, stencil_slopes, orig, global_aabb>>

Decompose(i) ==
    /\ Running
    /\ last' = [op |-> "decompose", panicked |-> FALSE, index |-> i,
                before |-> chain[i], ret |-> decompose(chain[i]),
                solve_output |-> periodic_solve_output(chain[i], stencil_slopes)]
    /\ UNCHANGED <<aabbVars, trapezoidVars, fftVars, execVars, stencil_slopes, orig, chain, global_aabb>>

\* the body of the unit tests test_decomp and decompose_3d: the periodic
\* solve found on the frustrum's input box, unwrapped, and the decomposition
PeriodicDecompose(i, cutoff) ==
    /\ last.op = "none"
    /\ LET solve == find_periodic_solve(input_aabb(chain[i], stencil_slopes),
                        [stencil_slopes |-> stencil_slopes, cutoff |-> cutoff,
                         ratio_num |-> 1, ratio_den |-> 2, max_steps |-> None])
       IN  last' = [op |-> "periodic_decompose", panicked |-> solve = None, index |-> i,
                    before |-> chain[i], cutoff |-> cutoff, solve |-> solve,
                    ret |-> decompose(chain[i])]
    /\ UNCHANGED <<aabbVars, trapezoidVars, fftVars, execVars, stencil_slopes, orig, chain, global_aabb>>

NextFrustrum ==
    \/ \E dbg \in BOOLEAN, cut_steps \in 0..(chain[Len(chain)].steps + 1) :
          TimeCut(Len(chain), cut_steps, dbg)
    \/ \E i \in 1..Len(chain) : Decompose(i)
    \/ \E cutoff \in {1, Decompose3dCutoff} : PeriodicDecompose(1, cutoff)

SpecFrustrum == InitFrustrum /\ [][NextFrustrum]_vars

----------------------------------------------------------------------------
(* The cut specification: Init draws the grid's box, the stencil slopes and  *)
(* a frustrum whose output box lies in the grid; the actions cut the         *)
(* frustrum until its input box lies in the grid, and build the boundary     *)
(* frustrums around a central solve as the unit test decompose_central does. *)

Cube(dims, lo, hi) == [d \in dims |-> [s \in 0..1 |-> IF s = 0 THEN lo ELSE hi]]

\* the steps of the central solve of the unit test decompose_central
CentralTestSteps == 50

\* the grids, slopes and frustrums of the unit tests out_of_bounds_cut_test
\* and decompose_central
CutTests ==
    {[global_aabb |-> Cube(0..1, 0, 399), stencil_slopes |-> bounds_from_element(0..1, 1),
      frustrum |-> APFrustrum([d \in 0..1 |-> [s \in 0..1 |->
                                  IF d = 0 THEN (IF s = 0 THEN 300 ELSE 387)
                                  ELSE (IF s = 0 THEN 0 ELSE 12)]], 1, "Min", 13)],
     [global_aabb |-> Cube(0..2, 0, 199), stencil_slopes |-> bounds_from_element(0..2, 1),
      frustrum |-> APFrustrum([Cube(0..2, 0, 199) EXCEPT ![0][1] = 49], 0, "Min",
                              CentralTestSteps)]}

InitCut ==
    /\ AABBIdle
    /\ TrapezoidIdle
    /\ FFTIdle
    /\ ExecIdle
    /\ \E t \in CutTests
             \cup {[global_aabb |-> Cube(Dims, lo, hi), stencil_slopes |-> slopes,
                    frustrum |-> f] :
                      lo \in CoordRange, hi \in CoordRange, slopes \in SlopeSamples,
                      f \in Frustrums(0, FMaxCoord)} :
          /\ check_validity(t.global_aabb)
          /\ contains_aabb(t.global_aabb, t.frustrum.output_aabb)
          /\ global_aabb = t.global_aabb
          /\ stencil_slopes = t.stencil_slopes
          /\ orig = t.frustrum
          /\ chain = <<t.frustrum>>
    /\ last = [op |-> "none", panicked |-> FALSE]

OutOfBoundsCut(dbg) ==
    /\ Running
    /\ LET r == out_of_bounds_cut(chain[1], stencil_slopes, global_aabb, dbg)
       IN  /\ last' = [op |-> "out_of_bounds_cut", panicked |-> r.panicked,
                       before |-> chain[1],
                       input |-> input_aabb(chain[1], stencil_slopes),
                       sloped |-> sloped_sides(chain[1]),
                       self |-> r.self, ret |-> r.ret]
           /\ chain' = <<r.self>>
    /\ UNCHANGED <<aabbVars, trapezoidVars, fftVars, execVars, stencil_slopes, orig, global_aabb>>

\* the body of the unit test decompose_central for one slab: the grid is
\* decomposed around the central solve's box, the grid shrunk by k * slope;
\* the frustrum on the slab takes the k steps
DecomposeCentral(k, d, side, dbg) ==
    /\ last.op = "none"
    /\ LET solve_aabb == shrink(global_aabb, k, stencil_slopes)
           dec == decomposition(global_aabb, solve_aabb, dbg)
           frustrum == APFrustrum(dec.boxes[d][outer_index(side)], d, side, k)
           r == out_of_bounds_cut(frustrum, stencil_slopes, global_aabb, dbg)
       IN  /\ check_validity(solve_aabb)
           /\ orig' = frustrum
           /\ chain' = <<IF dec.panicked THEN frustrum ELSE r.self>>
           /\ last' = [op |-> "decompose_central",
                       panicked |-> dec.panicked \/ r.panicked,
                       k |-> k, solve_aabb |-> solve_aabb, before |-> frustrum,
                       input |-> input_aabb(frustrum, stencil_slopes),
                       self |-> IF dec.panicked THEN frustrum ELSE r.self,
                       ret |-> IF dec.panicked THEN None ELSE r.ret]
    /\ UNCHANGED <<aabbVars, trapezoidVars, fftVars, execVars, stencil_slopes, global_aabb>>

\* the planner makes the node of a frustrum the cut trimmed, the scratch
\* builder its descriptor, and aob_direct_solve_allocate_io takes the node's
\* two domains from the scratch space
AOBAllocateIO(dbg) ==
    /\ last.op = "out_of_bounds_cut"
    /\ ~last.panicked
    /\ last.ret # None
    /\ LET aob_direct_solve == plan_aob(last.before, last,
                                  [stencil_slopes |-> stencil_slopes], global_aabb)
           descriptor == leaf_descriptor(aob_direct_solve, 0)
           r == get_input_output(descriptor, aob_direct_solve.init_input_aabb, dbg)
       IN  last' = [op |-> "aob_direct_solve_allocate_io", panicked |-> r.panicked,
                    before |-> last.before, node |-> aob_direct_solve,
                    descriptor |-> descriptor,
                    input_domain |-> r.input_domain, output_domain |-> r.output_domain]
    /\ UNCHANGED <<aabbVars, trapezoidVars, fftVars, execVars, stencil_slopes, orig, chain,
                   global_aabb>>

NextCut ==
    \/ \E dbg \in BOOLEAN : OutOfBoundsCut(dbg)
    \/ \E dbg \in BOOLEAN : AOBAllocateIO(dbg)
    \/ \E k \in (1..MaxSteps) \cup {CentralTestSteps}, d \in DOMAIN global_aabb,
          side \in {"Min", "Max"}, dbg \in BOOLEAN : DecomposeCentral(k, d, side, dbg)

SpecCut == InitCut /\ [][NextCut]_vars

----------------------------------------------------------------------------
(* The steps specification: Init draws the grid's box, the stencil slopes    *)
(* and a frustrum of one step or more in the grid; the actions are the three *)
(* operations that make or change a frustrum, in any order, each on the      *)
(* frustrum an earlier one left: the head or the tail of a time cut, a child *)
(* of a decomposition, the frustrum an out-of-bounds cut trimmed.  The       *)
(* arguments are those the operations accept: 0 <= cut_steps <= steps.       *)

\* the grid of the frustrums: two cells a side
StepsGrid == Cube(Dims, 0, 1)

\* the output boxes: the grid, its slab on the min face of dimension 0, and
\* its last cell
StepsBoxes == {StepsGrid, [StepsGrid EXCEPT ![0][1] = 0], Cube(Dims, 1, 1)}

InitSteps ==
    /\ AABBIdle
    /\ TrapezoidIdle
    /\ FFTIdle
    /\ ExecIdle
    /\ global_aabb = StepsGrid
    /\ stencil_slopes \in SlopeSamples
    /\ orig \in {APFrustrum(b, d, sd, st) :
                    b \in StepsBoxes, d \in Dims, sd \in {"Min", "Max"}, st \in 1..MaxSteps}
    /\ chain = <<orig>>
    /\ last = [op |-> "none", panicked |-> FALSE, clean |-> TRUE]

\* steps is a usize: no operation is followed past a wrap of out_of_bounds_cut
Unwrapped == chain[1].steps >= 0

StepsTimeCut(cut_steps, follow, dbg) ==
    /\ Running
    /\ Unwrapped
    /\ LET r == time_cut(chain[1], cut_steps, stencil_slopes, dbg)
       IN  /\ follow = "tail" => r.ret # None
           /\ last' = [op |-> "time_cut", panicked |-> r.panicked,
                       before |-> chain[1], cut_steps |-> cut_steps,
                       self |-> r.self, ret |-> r.ret,
                       clean |-> last.clean /\ cut_steps >= 1]
           /\ chain' = IF follow = "tail" THEN r.ret ELSE <<r.self>>
    /\ UNCHANGED <<aabbVars, trapezoidVars, fftVars, execVars, stencil_slopes, orig, global_aabb>>

StepsDecompose(j) ==
    /\ Running
    /\ Unwrapped
    /\ LET ret == decompose(chain[1])
       IN  /\ j \in DOMAIN ret
           /\ last' = [op |-> "decompose", panicked |-> FALSE, before |-> chain[1],
                       ret |-> ret, clean |-> last.clean]
           /\ chain' = <<ret[j]>>
    /\ UNCHANGED <<aabbVars, trapezoidVars, fftVars, execVars, stencil_slopes, orig, global_aabb>>

StepsOutOfBoundsCut(dbg) ==
    /\ Running
    /\ Unwrapped
    /\ LET r == out_of_bounds_cut(chain[1], stencil_slopes, global_aabb, dbg)
       IN  /\ last' = [op |-> "out_of_bounds_cut", panicked |-> r.panicked,
                       before |-> chain[1], self |-> r.self, ret |-> r.ret,
                       clean |-> last.clean /\ r.ret = None]
           /\ chain' = <<r.self>>
    /\ UNCHANGED <<aabbVars, trapezoidVars, fftVars, execVars, stencil_slopes, orig, global_aabb>>

NextSteps ==
    \/ \E cut_steps \in 0..chain[1].steps, follow \in {"head", "tail"}, dbg \in BOOLEAN :
          StepsTimeCut(cut_steps, follow, dbg)
    \/ \E j \in 1..(2 * GRID_DIMENSION - 1) : StepsDecompose(j)
    \/ \E dbg \in BOOLEAN : StepsOutOfBoundsCut(dbg)

SpecSteps == InitSteps /\ [][NextSteps]_vars

----------------------------------------------------------------------------
(* The trapezoid specification: Init draws an output box, a mask of sloped   *)
(* sides, the stencil's slopes and the steps; the actions compute the input  *)
(* region and run the trapezoid solve on two domains over that region, as    *)
(* direct_solve_preallocated_io does over a node's input_aabb.               *)

TrapezoidArgs(steps, output_box, sloped_sides_, slopes) ==
    [op |-> "args", steps |-> steps, output_box |-> output_box,
     sloped_sides |-> sloped_sides_, stencil_slopes |-> slopes]

\* the arguments of the unit tests of solver/trapezoid.rs (one dimension)
TrapezoidTests ==
    LET b(lo, hi) == [d \in {0} |-> [s \in 0..1 |-> IF s = 0 THEN lo ELSE hi]]
    IN  {TrapezoidArgs(5, b(10, 20), b(1, 1), b(1, 1)),
         TrapezoidArgs(5, b(10, 20), b(0, 1), b(1, 1)),
         TrapezoidArgs(5, b(10, 20), b(1, 0), b(1, 1)),
         TrapezoidArgs(5, b(10, 20), b(1, 1), b(1, 2)),
         TrapezoidArgs(5, b(15, 35), b(1, 1), b(1, 1))}

InitTrapezoid ==
    /\ AABBIdle
    /\ FrustrumIdle
    /\ FFTIdle
    /\ ExecIdle
    /\ \E t \in TrapezoidTests
             \cup {TrapezoidArgs(steps, output_box, sloped_sides_, slopes) :
                      steps \in 0..MaxSteps, output_box \in ValidBoxes(0, FMaxCoord),
                      sloped_sides_ \in [Dims -> [0..1 -> 0..1]],
                      slopes \in SlopeSamples} :
          trapezoid = Some(t)

TrapezoidInputRegion ==
    /\ trapezoid # None
    /\ trapezoid[1].op = "args"
    /\ LET t == trapezoid[1]
       IN  trapezoid' = Some([op |-> "region", steps |-> t.steps,
                output_box |-> t.output_box, sloped_sides |-> t.sloped_sides,
                stencil_slopes |-> t.stencil_slopes,
                input_region |-> trapezoid_input_region(t.steps, t.output_box,
                                    t.sloped_sides, t.stencil_slopes)])
    /\ UNCHANGED <<aabbVars, frustrumVars, fftVars, execVars>>

\* the two domains hold the input region; outside it the boundary condition
\* has a value for every coordinate
TrapezoidApply(dbg) ==
    /\ trapezoid # None
    /\ trapezoid[1].op = "region"
    /\ LET t == trapezoid[1]
           len == buffer_size(t.input_region)
           input == SliceDomain(t.input_region, Buffer("input", 0, len), 0)
           output == SliceDomain(t.input_region, Buffer("output", 0, len), Stale)
       IN  trapezoid' = Some([op |-> "applied", steps |-> t.steps,
                output_box |-> t.output_box, sloped_sides |-> t.sloped_sides,
                stencil_slopes |-> t.stencil_slopes,
                input_region |-> t.input_region,
                result |-> trapezoid_apply(t.input_region, t.stencil_slopes, input,
                              output, t.sloped_sides, t.steps, dbg)])
    /\ UNCHANGED <<aabbVars, frustrumVars, fftVars, execVars>>

NextTrapezoid ==
    \/ TrapezoidInputRegion
    \/ \E dbg \in BOOLEAN : TrapezoidApply(dbg)

SpecTrapezoid == InitTrapezoid /\ [][NextTrapezoid]_vars

----------------------------------------------------------------------------
(* The executor specification: Init draws the grid, the planner's cutoff and *)
(* the steps of an apply, plans and lays out the scratch space; the actions  *)
(* are the steps of APSolver::apply, of the calls under it and of the caller *)
(* of the examples, which swaps its two domains after each apply.  The       *)
(* boundary solves of a scope run interleaved.                               *)

Box1(n) == [d \in 0..0 |-> [s \in 0..1 |-> IF s = 0 THEN 0 ELSE n - 1]]
Box2(n) == [d \in 0..1 |-> [s \in 0..1 |-> IF s = 0 THEN 0 ELSE n - 1]]

Configs ==
    {[aabb |-> Box1(12), cutoff |-> 4],
     [aabb |-> Box1(8), cutoff |-> 8],
     [aabb |-> Box2(8), cutoff |-> 4]}

NoDomains == None

\* the solver and the two domains of the caller, whose buffers are short of
\* what the grid takes by some of the amounts of Short
InitCaller(Short) ==
    /\ AABBIdle
    /\ FrustrumIdle
    /\ TrapezoidIdle
    /\ FFTIdle
    /\ \E cfg \in Configs, total \in 0..MaxTotalSteps, short_in, short_out \in Short :
          LET prm == [stencil_slopes |-> bounds_from_element(DOMAIN cfg.aabb, 1),
                      cutoff |-> cfg.cutoff, ratio_num |-> 1, ratio_den |-> 2,
                      max_steps |-> None]
              pl == APPlan(plan_root(cfg.aabb, total, prm))
              len == buffer_size(cfg.aabb)
          IN  /\ planner_params = prm
              /\ plan = pl
              /\ node_scratch_descriptors = APScratchBuilder(pl)
              /\ total_steps = total
              /\ pc = [id \in DOMAIN pl.nodes |-> "idle"]
              /\ domains = [id \in {i \in DOMAIN pl.nodes : i = <<>> \/ IsBoundary(i)} |->
                    IF id = <<>>
                    THEN [input_domain |->
                             SliceDomain(cfg.aabb,
                                 Buffer("input_buffer", 0, len - short_in), 0),
                          output_domain |->
                             SliceDomain(cfg.aabb,
                                 Buffer("output_buffer", 0, len - short_out), Stale)]
                    ELSE NoDomains]
              /\ writes = [id \in {i \in DOMAIN pl.nodes :
                                      pl.nodes[i].kind = "PeriodicSolve"} |-> {}]
              /\ events = [id \in DOMAIN pl.nodes |-> <<>>]
    /\ iter = 0
    /\ applies = 0
    /\ panic = ""

\* the caller of examples/heat_3d_ap_fft.rs: buffers of the size of the grid
InitExec == InitCaller({0})

\* a caller whose buffers may be one cell short
InitEntry == InitCaller({0, 1})

Nodes == plan.nodes
PeriodicIds == {id \in DOMAIN Nodes : Nodes[id].kind = "PeriodicSolve"}
DirectIds == {id \in DOMAIN Nodes : Nodes[id].kind = "DirectSolve"}
BoundaryIds == {id \in DOMAIN Nodes : IsBoundary(id)}
bc_bound == Nodes[Nodes[plan.root].node].input_aabb

Step(pc2, domains2, writes2, events2) ==
    /\ pc' = pc2
    /\ domains' = domains2
    /\ writes' = writes2
    /\ events' = events2
    /\ UNCHANGED <<aabbVars, frustrumVars, trapezoidVars, fftVars, planVars, iter, applies, panic>>

Fail(msg) ==
    /\ panic' = msg
    /\ UNCHANGED <<aabbVars, frustrumVars, trapezoidVars, fftVars, planVars, pc, iter, applies, domains,
                   writes, events>>

\* a call of unknown_solve_preallocated_io or periodic_solve_preallocated_io
Enter(pcs, id) ==
    [pcs EXCEPT ![id] = IF Nodes[id].kind = "PeriodicSolve" THEN "copy_in" ELSE "direct"]

\* where a call goes once its solve is over: a boundary node copies out
Finished(id) == IF IsBoundary(id) THEN "copy_out" ELSE "done"
AfterResize(id) == IF Nodes[id].time_cut = None THEN Finished(id) ELSE "time_cut"
AfterJoin(id) == IF resize(id) THEN "resize" ELSE AfterResize(id)
Returned(id, at) == IF at \in {"copy_out", "done"} THEN <<"return">> ELSE <<>>

\* APSolver::apply
Apply ==
    /\ panic = ""
    /\ pc[plan.root] = "idle"
    /\ applies < MaxApplies
    /\ pc' = [pc EXCEPT ![plan.root] = "loop"]
    /\ iter' = 0
    /\ UNCHANGED <<aabbVars, frustrumVars, trapezoidVars, fftVars, planVars, applies, domains, writes, events,
                   panic>>

\* solve_root: the head of the loop, and what follows the loop
SolveRoot ==
    /\ panic = ""
    /\ pc[plan.root] = "loop"
    /\ LET repeat_solve == Nodes[plan.root]
       IN  IF loop_continues(iter, repeat_solve.n)
           THEN /\ pc' = [Enter(pc, repeat_solve.node) EXCEPT ![plan.root] = "in_node"]
                /\ events' = [events EXCEPT ![repeat_solve.node] = <<>>]
                /\ UNCHANGED domains
           ELSE IF repeat_solve.next # None
           THEN /\ pc' = [Enter(pc, repeat_solve.next[1]) EXCEPT ![plan.root] = "in_next"]
                /\ events' = [events EXCEPT ![repeat_solve.next[1]] = <<>>]
                /\ UNCHANGED domains
           ELSE /\ pc' = [pc EXCEPT ![plan.root] = "done"]
                /\ domains' = [domains EXCEPT ![plan.root] = solve_root_no_next(@)]
                /\ UNCHANGED events
    /\ UNCHANGED <<aabbVars, frustrumVars, trapezoidVars, fftVars, planVars, iter, applies, writes, panic>>

\* solve_root: the repeated node has returned, swap
SolveRootSwap ==
    /\ panic = ""
    /\ pc[plan.root] = "in_node"
    /\ pc[Nodes[plan.root].node] = "done"
    /\ pc' = [pc EXCEPT ![plan.root] = "loop"]
    /\ domains' = [domains EXCEPT ![plan.root] = swap(@)]
    /\ iter' = iter + 1
    /\ UNCHANGED <<aabbVars, frustrumVars, trapezoidVars, fftVars, planVars, applies, writes, events, panic>>

\* solve_root: the next node has returned
SolveRootReturn ==
    /\ panic = ""
    /\ pc[plan.root] = "in_next"
    /\ pc[Nodes[plan.root].next[1]] = "done"
    /\ pc' = [pc EXCEPT ![plan.root] = "done"]
    /\ UNCHANGED <<aabbVars, frustrumVars, trapezoidVars, fftVars, planVars, iter, applies, domains, writes,
                   events, panic>>

\* the caller (examples/heat_3d_ap_fft.rs): swap after the apply
CallerSwap ==
    /\ panic = ""
    /\ pc[plan.root] = "done"
    /\ pc' = [pc EXCEPT ![plan.root] = "idle"]
    /\ domains' = [domains EXCEPT ![plan.root] = swap(@)]
    /\ applies' = applies + 1
    /\ UNCHANGED <<aabbVars, frustrumVars, trapezoidVars, fftVars, planVars, iter, writes, events, panic>>

\* periodic_solve_preallocated_io: swap, shrink to input_aabb
PeriodicCopyIn(id) ==
    /\ panic = ""
    /\ pc[id] = "copy_in"
    /\ LET r == periodic_copy_in(Nodes[id], domains[Owner(id)])
       IN  IF r.panicked THEN Fail("copy_in")
           ELSE Step([pc EXCEPT ![id] = "convolution"],
                     [domains EXCEPT ![Owner(id)] =
                         [input_domain |-> r.input_domain,
                          output_domain |-> r.output_domain]],
                     writes,
                     [events EXCEPT ![id] = Append(@, "copy_in")])

\* periodic_solve_preallocated_io: the convolution
PeriodicConvolution(id) ==
    /\ panic = ""
    /\ pc[id] = "convolution"
    /\ Step([pc EXCEPT ![id] = "spawn"],
            [domains EXCEPT ![Owner(id)].output_domain =
                convolution_apply(domains[Owner(id)].input_domain, @, Nodes[id].steps)],
            writes,
            [events EXCEPT ![id] = Append(@, "convolution")])

\* periodic_solve_preallocated_io: the scope spawns the boundary solves
PeriodicSpawn(id) ==
    /\ panic = ""
    /\ pc[id] = "spawn"
    /\ LET kids == {Nodes[id].boundary_nodes[i] : i \in DOMAIN Nodes[id].boundary_nodes}
       IN  Step([n \in DOMAIN pc |-> IF n = id THEN "join"
                                     ELSE IF n \in kids THEN "allocate" ELSE pc[n]],
                domains,
                [writes EXCEPT ![id] = {}],
                [n \in DOMAIN events |-> IF n = id THEN Append(events[n], "spawn")
                                         ELSE IF n \in kids THEN <<>> ELSE events[n]])

\* periodic_solve_preallocated_io: the scope returns
PeriodicJoin(id) ==
    /\ panic = ""
    /\ pc[id] = "join"
    /\ scope_joined(Nodes[id], pc)
    /\ Step([pc EXCEPT ![id] = AfterJoin(id)],
            domains, writes,
            [events EXCEPT ![id] = Append(@, "join") \o Returned(id, AfterJoin(id))])

\* periodic_solve_preallocated_io: if resize
PeriodicResize(id) ==
    /\ panic = ""
    /\ pc[id] = "resize"
    /\ LET r == periodic_resize(Nodes[id], domains[Owner(id)])
       IN  IF r.panicked THEN Fail("resize")
           ELSE Step([pc EXCEPT ![id] = AfterResize(id)],
                     [domains EXCEPT ![Owner(id)] =
                         [input_domain |-> r.input_domain,
                          output_domain |-> r.output_domain]],
                     writes,
                     [events EXCEPT ![id] =
                         Append(@, "resize") \o Returned(id, AfterResize(id))])

\* periodic_solve_preallocated_io: swap and call the time-cut successor
PeriodicTimeCut(id) ==
    /\ panic = ""
    /\ pc[id] = "time_cut"
    /\ LET next_id == Nodes[id].time_cut[1]
       IN  Step([Enter(pc, next_id) EXCEPT ![id] = "in_time_cut"],
                [domains EXCEPT ![Owner(id)] = swap(@)],
                writes,
                [events EXCEPT ![id] = Append(@, "time_cut"), ![next_id] = <<>>])

\* periodic_solve_preallocated_io: the time-cut successor has returned
PeriodicReturn(id) ==
    /\ panic = ""
    /\ pc[id] = "in_time_cut"
    /\ pc[Nodes[id].time_cut[1]] = "done"
    /\ Step([pc EXCEPT ![id] = Finished(id)],
            domains, writes,
            [events EXCEPT ![id] = Append(@, "return")])

\* periodic_solve_allocate_io, direct_solve_allocate_io: take the scratch
\* buffers, copy the input from the parent's input domain
AllocateIO(id, dbg) ==
    /\ panic = ""
    /\ pc[id] = "allocate"
    /\ LET r == get_input_output(node_scratch_descriptors[id], Nodes[id].input_aabb, dbg)
           input == domains[Owner(Front(id))].input_domain
       IN  IF r.panicked \/ ~contains_aabb(input.aabb, Nodes[id].input_aabb)
           THEN Fail("allocate")
           ELSE Step(Enter(pc, id),
                     [domains EXCEPT ![id] =
                         [input_domain |-> par_from_superset(r.input_domain, input),
                          output_domain |-> r.output_domain]],
                     writes,
                     events)

\* direct_solve_preallocated_io
DirectSolve(id, dbg) ==
    /\ panic = ""
    /\ pc[id] = "direct"
    /\ LET r == direct_solve_preallocated_io(Nodes[id], domains[Owner(id)], bc_bound,
                                             planner_params.stencil_slopes, dbg)
       IN  IF r.panicked THEN Fail("direct")
           ELSE Step([pc EXCEPT ![id] = Finished(id)],
                     [domains EXCEPT ![Owner(id)] =
                         [input_domain |-> r.input_domain,
                          output_domain |-> r.output_domain]],
                     writes, events)

\* periodic_solve_allocate_io, direct_solve_allocate_io: copy the output
\* into the parent's output domain and return
CopyOut(id) ==
    /\ panic = ""
    /\ pc[id] = "copy_out"
    /\ LET output == domains[Owner(Front(id))].output_domain
           output_domain == domains[id].output_domain
       IN  IF ~contains_aabb(output.aabb, output_domain.aabb)
           THEN Fail("copy_out")
           ELSE Step([pc EXCEPT ![id] = "done"],
                     domains,
                     [writes EXCEPT ![Front(id)] =
                         @ \cup {[writer |-> id,
                                  region |-> par_set_subdomain(output, output_domain),
                                  time |-> output_domain.time]}],
                     events)

Next ==
    \/ Apply
    \/ SolveRoot
    \/ SolveRootSwap
    \/ SolveRootReturn
    \/ CallerSwap
    \/ \E id \in PeriodicIds : PeriodicCopyIn(id)
    \/ \E id \in PeriodicIds : PeriodicConvolution(id)
    \/ \E id \in PeriodicIds : PeriodicSpawn(id)
    \/ \E id \in PeriodicIds : PeriodicJoin(id)
    \/ \E id \in PeriodicIds : PeriodicResize(id)
    \/ \E id \in PeriodicIds : PeriodicTimeCut(id)
    \/ \E id \in PeriodicIds : PeriodicReturn(id)
    \/ \E id \in BoundaryIds, dbg \in BOOLEAN : AllocateIO(id, dbg)
    \/ \E id \in DirectIds, dbg \in BOOLEAN : DirectSolve(id, dbg)
    \/ \E id \in BoundaryIds : CopyOut(id)

Spec == InitExec /\ [][Next]_vars

\* the executor on the domains of any caller
SpecEntry == InitEntry /\ [][Next]_vars

----------------------------------------------------------------------------
(* Properties of the geometry *)

\* pieces (a sequence of boxes) are pairwise disjoint as coordinate sets and
\* their union is the coordinate set of whole
Partitions(pieces, whole) ==
    /\ \A i, j \in DOMAIN pieces :
          i # j => coord_iter(pieces[i]) \cap coord_iter(pieces[j]) = {}
    /\ UNION {coord_iter(pieces[i]) : i \in DOMAIN pieces} = coord_iter(whole)

\* the 2*D slabs of a decomposition, then the center
DecompPieces(r) ==
    [i \in 1..(2 * GRID_DIMENSION + 1) |->
        IF i = 2 * GRID_DIMENSION + 1 THEN center
        ELSE r.boxes[(i - 1) \div 2][(i - 1) % 2]]

Touches(b, c) == \E d \in Dims : c[d][0] = b[d][0] \/ c[d][1] = b[d][1]

\* C4 as stated: for every B and every C contained in B, touching a face of
\* B or not, B.decomposition(C) returns 2*D boxes that, with C, are pairwise
\* disjoint and have union B.
C4_AnyCenterPartitions ==
    decomp # None =>
        /\ ~decomp[1].panicked
        /\ Partitions(DecompPieces(decomp[1]), outer)

\* C4 amended: decomposition fails (its debug assertion) only for a C that
\* touches a face of B; whenever it returns, the 2*D boxes and C are pairwise
\* disjoint and their union is B.  In particular it returns a partition for
\* every C that touches no face of B.
C4_StrictCenterPartitions ==
    decomp # None =>
        /\ decomp[1].panicked => Touches(outer, center)
        /\ ~decomp[1].panicked => Partitions(DecompPieces(decomp[1]), outer)

C4_Witness ==
    /\ decomp # None
    /\ ~Touches(outer, center)
    /\ ~decomp[1].panicked
    /\ \A d \in Dims, s \in 0..1 : coord_iter(decomp[1].boxes[d][s]) # {}

\* the output boxes of decompose's frustrums, then periodic_solve_output
FrustrumPieces(kids, solve_output) ==
    [i \in 1..(Len(kids) + 1) |->
        IF i = Len(kids) + 1 THEN solve_output ELSE kids[i].output_aabb]

\* C5: for every frustrum F, the output boxes of F.decompose() together with
\* F.periodic_solve_output(slopes) are pairwise disjoint and their union is
\* F.output_aabb.
C5_DecomposeTilesOutput ==
    last.op = "decompose" =>
        Partitions(FrustrumPieces(last.ret, last.solve_output), last.before.output_aabb)

\* C6: after tail = F.time_cut(k, slopes) with 0 < k < F.steps, the head (F
\* as mutated) has the input box F had, the tail has the output box F had, and
\* the head's output box is the tail's input box.
C6_TimeCutPreservesInput ==
    (/\ last.op = "time_cut"
     /\ ~last.panicked
     /\ 0 < last.cut_steps
     /\ last.cut_steps < last.before.steps) =>
        /\ last.ret # None
        /\ input_aabb(last.self, stencil_slopes) = input_aabb(last.before, stencil_slopes)
        /\ last.ret[1].output_aabb = last.before.output_aabb
        /\ last.self.output_aabb = input_aabb(last.ret[1], stencil_slopes)

C6_Witness ==
    /\ last.op = "time_cut"
    /\ ~last.panicked
    /\ 0 < last.cut_steps
    /\ last.cut_steps < last.before.steps
    /\ last.ret # None
    /\ last.self.output_aabb # last.before.output_aabb
    /\ input_aabb(last.before, stencil_slopes) # last.self.output_aabb

\* C7: in the chain made by repeated time cuts, every frustrum's output box
\* is the next frustrum's input box, the first frustrum's input box is the
\* original input box and the last frustrum's output box is the original
\* output box.
C7_TimeCutChain ==
    /\ \A i \in 1..(Len(chain) - 1) :
          chain[i].output_aabb = input_aabb(chain[i + 1], stencil_slopes)
    /\ Len(chain) >= 1 =>
          /\ input_aabb(chain[1], stencil_slopes) = input_aabb(orig, stencil_slopes)
          /\ chain[Len(chain)].output_aabb = orig.output_aabb

C7_Witness ==
    /\ Len(chain) = 3
    /\ \A i \in 1..3 : chain[i].steps >= 1
    /\ chain[1].output_aabb # chain[2].output_aabb
    /\ chain[2].output_aabb # chain[3].output_aabb
    /\ last.op = "time_cut" /\ last.index = 2

----------------------------------------------------------------------------
(* The executor's claims *)

Root == Nodes[plan.root]
Caller == domains[plan.root]
Returned_ == pc[plan.root] = "done" /\ panic = ""

\* C2: when solve_root has returned, the caller's output domain holds the
\* field advanced by all the steps of the apply and its input domain holds an
\* older field or none, for every repeat count n and with or without a next
\* node; once the caller has swapped the two, its input domain holds the
\* newest field.
C2_ResultInOutputDomain ==
    /\ Returned_ =>
          /\ Caller.output_domain.time = (applies + 1) * total_steps
          /\ Caller.input_domain.time < (applies + 1) * total_steps
    /\ (pc[plan.root] = "idle" /\ panic = "") =>
          Caller.input_domain.time = applies * total_steps

C2_Witness ==
    /\ Returned_
    /\ applies = 1
    /\ Root.n = 1
    /\ Root.next = None
    /\ Caller.output_domain.time = 2 * total_steps
    /\ Caller.output_domain.buffer.arena = "input_buffer"

\* C3: solve_root advances the field by n * k + r steps, k the steps of the
\* repeated node, n the repeat count, r the steps of next (0 without next);
\* as planned, that is total_steps, and there is no next exactly when
\* total_steps is a multiple of k.
C3_AdvancesTotalSteps ==
    LET k == Nodes[Root.node].steps
        r == IF Root.next = None THEN 0 ELSE Nodes[Root.next[1]].steps
    IN  /\ Root.n * k + r = total_steps
        /\ (Root.next = None) <=> (total_steps % k = 0)
        /\ Returned_ =>
              Caller.output_domain.time = applies * total_steps + Root.n * k + r

C3_Witness ==
    /\ Returned_
    /\ Root.n = 2
    /\ Root.next # None
    /\ Nodes[Root.next[1]].steps = 1
    /\ Caller.output_domain.time = total_steps
    /\ total_steps = 2 * Nodes[Root.node].steps + 1

\* a boundary solve holds its two scratch buffers from get_input_output until
\* it returns
Holds(id) == pc[id] \notin {"idle", "allocate", "done"}

IsPrefix(s, t) == Len(s) <= Len(t) /\ s = SubSeq(t, 1, Len(s))

\* two boundary solves run concurrently when neither is below the other
Concurrent(a, b) == a # b /\ ~IsPrefix(a, b) /\ ~IsPrefix(b, a)

\* C8: whenever two boundary solves that run concurrently (boundary nodes of
\* one periodic node, or nodes below two different boundary nodes) both hold
\* their scratch buffers, the ranges [input_offset, input_offset +
\* real_buffer_size) and [output_offset, output_offset + real_buffer_size) of
\* the one are disjoint from those of the other.
C8_ScratchDisjoint ==
    \A a, b \in BoundaryIds :
        (Concurrent(a, b) /\ Holds(a) /\ Holds(b)) =>
            LET ra == scratch_ranges(node_scratch_descriptors[a])
                rb == scratch_ranges(node_scratch_descriptors[b])
            IN  (ra.input \cup ra.output) \cap (rb.input \cup rb.output) = {}

Disjoint(a, b) == coord_iter(a) \cap coord_iter(b) = {}

\* the last node of the time-cut chain that starts at a node
RECURSIVE chain_last(_)
chain_last(id) ==
    IF Nodes[id].kind = "PeriodicSolve" /\ Nodes[id].time_cut # None
    THEN chain_last(Nodes[id].time_cut[1])
    ELSE id

\* C9 as stated: every boundary solve of a periodic node writes into the
\* parent's output domain exactly the cells of its own node's output_aabb;
\* what two of them write is disjoint, and disjoint from the parent's
\* output_aabb.
C9_WritesOwnOutputAABB ==
    \A id \in PeriodicIds : \A w \in writes[id] :
        /\ w.region = Nodes[w.writer].output_aabb
        /\ Disjoint(w.region, Nodes[id].output_aabb)
        /\ \A v \in writes[id] : v.writer # w.writer => Disjoint(w.region, v.region)

\* C9 amended: no step taken while the scope of a periodic node is open
\* changes the node's input domain; every boundary solve writes into the
\* parent's output domain exactly the cells of the output_aabb of the last
\* node of its time-cut chain (its own when it has no time-cut successor);
\* what two of them write is disjoint, and disjoint from the parent's valid
\* interior, its input_aabb shrunk by steps * stencil_slopes on every face.
C9_WritesDisjointSlabs ==
    /\ [](\A id \in PeriodicIds : \A w \in writes[id] :
            /\ w.region = Nodes[chain_last(w.writer)].output_aabb
            /\ Disjoint(w.region, valid_interior(Nodes[id], planner_params.stencil_slopes))
            /\ \A v \in writes[id] : v.writer # w.writer => Disjoint(w.region, v.region))
    /\ [][\A id \in PeriodicIds :
            pc[id] = "join" =>
                domains'[Owner(id)].input_domain = domains[Owner(id)].input_domain]_vars

C9_Witness ==
    \E id \in PeriodicIds :
        /\ Cardinality(writes[id]) = Len(Nodes[id].boundary_nodes)
        /\ Cardinality(writes[id]) >= 2
        /\ \E w \in writes[id] :
              /\ Nodes[w.writer].kind = "PeriodicSolve"
              /\ Nodes[w.writer].time_cut # None
              /\ w.region # Nodes[w.writer].output_aabb

\* the events of a call of periodic_solve_preallocated_io, in order
Expected(id) ==
    <<"copy_in", "convolution", "spawn", "join">>
    \o (IF resize(id) THEN <<"resize">> ELSE <<>>)
    \o (IF Nodes[id].time_cut # None THEN <<"time_cut">> ELSE <<>>)
    \o <<"return">>

Occurred(id, e) == \E i \in 1..Len(events[id]) : events[id][i] = e

\* C10: the events of every call of a periodic node occur in the order
\* copy-in, convolution, spawn, join, resize (if asked), time cut (if there
\* is a successor), return; from the join on, so at the resize, at the start
\* of the time-cut successor and at the return, every boundary solve the
\* scope spawned has returned.
C10_StrictOrder ==
    \A id \in PeriodicIds :
        /\ IsPrefix(events[id], Expected(id))
        /\ Occurred(id, "join") =>
              \A i \in DOMAIN Nodes[id].boundary_nodes :
                  pc[Nodes[id].boundary_nodes[i]] = "done"
        /\ pc[id] \in {"resize", "time_cut", "in_time_cut", "copy_out", "done"} =>
              Occurred(id, "join")

C10_Witness ==
    \E id \in PeriodicIds :
        /\ events[id] = <<"copy_in", "convolution", "spawn", "join", "resize",
                          "time_cut", "return">>
        /\ Len(Nodes[id].boundary_nodes) >= 1
        /\ pc[id] = "copy_out"

----------------------------------------------------------------------------
(* Properties of the trapezoid solve *)

Applied == trapezoid # None /\ trapezoid[1].op = "applied"

\* C11: after the trapezoid solve on two domains with box I, the output
\* domain's box is I with every min face raised and every max face lowered
\* by steps * sloped_sides * stencil_slopes; this undoes the input region, so
\* the output domain's box is the output box the region was computed for
\* (a region [10, 40], both faces sloped, slope 1, 5 steps gives [15, 35]).
C11_TrapezoidOutputBox ==
    Applied =>
        LET t == trapezoid[1]
            I == t.input_region
            out == t.result.output_domain.aabb
        IN  /\ ~t.result.panicked
            /\ \A d \in DOMAIN I :
                  /\ out[d][0] = I[d][0] + t.steps * t.sloped_sides[d][0] * t.stencil_slopes[d][0]
                  /\ out[d][1] = I[d][1] - t.steps * t.sloped_sides[d][1] * t.stencil_slopes[d][1]
            /\ out = t.output_box
            /\ (I = [d \in {0} |-> [s \in 0..1 |-> IF s = 0 THEN 10 ELSE 40]]
                    /\ t.steps = 5 /\ \A s \in 0..1 : t.sloped_sides[0][s] = 1
                                                    /\ t.stencil_slopes[0][s] = 1)
                => out = [d \in {0} |-> [s \in 0..1 |-> IF s = 0 THEN 15 ELSE 35]]

\* C11 witness: a solve of several steps with sloped and unsloped faces has
\* moved the output box, and the solve of the region [10, 40] has run.
C11_Witness ==
    /\ Applied
    /\ ~trapezoid[1].result.panicked
    /\ trapezoid[1].steps >= 2
    /\ trapezoid[1].result.output_domain.aabb # trapezoid[1].input_region
    /\ \E d \in DOMAIN trapezoid[1].sloped_sides :
          trapezoid[1].sloped_sides[d][0] # trapezoid[1].sloped_sides[d][1]

\* C13: the input region is the output box with each min lowered and each
\* max raised by steps * sloped_sides * stencil_slopes of that face; a face
\* whose mask is 0 stays, and with non-negative slopes the region contains
\* the output box (output [10, 20], 5 steps, slopes [1, 2], both faces sloped
\* gives [5, 30]).
C13_InputRegion ==
    (trapezoid # None /\ trapezoid[1].op # "args") =>
        LET t == trapezoid[1]
            I == t.input_region
            O == t.output_box
        IN  /\ \A d \in DOMAIN O :
                  /\ I[d][0] = O[d][0] - t.steps * t.sloped_sides[d][0] * t.stencil_slopes[d][0]
                  /\ I[d][1] = O[d][1] + t.steps * t.sloped_sides[d][1] * t.stencil_slopes[d][1]
                  /\ \A s \in 0..1 : t.sloped_sides[d][s] = 0 => I[d][s] = O[d][s]
            /\ (\A d \in DOMAIN O, s \in 0..1 : t.stencil_slopes[d][s] >= 0)
                  => contains_aabb(I, O)
            /\ (O = [d \in {0} |-> [s \in 0..1 |-> IF s = 0 THEN 10 ELSE 20]]
                    /\ t.steps = 5 /\ \A s \in 0..1 : t.sloped_sides[0][s] = 1
                    /\ t.stencil_slopes[0][0] = 1 /\ t.stencil_slopes[0][1] = 2)
                => I = [d \in {0} |-> [s \in 0..1 |-> IF s = 0 THEN 5 ELSE 30]]

\* C13 witness: a region that is larger than its output box on a sloped face
\* and meets it on an unsloped one.
C13_Witness ==
    /\ trapezoid # None
    /\ trapezoid[1].op = "region"
    /\ trapezoid[1].steps >= 2
    /\ \E d \in DOMAIN trapezoid[1].output_box :
          /\ trapezoid[1].sloped_sides[d][0] = 0
          /\ trapezoid[1].sloped_sides[d][1] = 1
          /\ trapezoid[1].input_region[d][1] > trapezoid[1].output_box[d][1]
          /\ trapezoid[1].input_region[d][0] = trapezoid[1].output_box[d][0]

----------------------------------------------------------------------------
(* Properties of the cuts against the grid *)

CutDone == last.op = "out_of_bounds_cut" /\ ~last.panicked

\* C12 as stated: sloped_sides has 1 exactly at the outer side of the
\* recursion dimension and at both sides of every dimension above it, and 0
\* at the inner side of the recursion dimension and below it.
C12_SlopedOuterAndAbove ==
    CutDone =>
        \A d \in DOMAIN last.sloped, s \in 0..1 :
            last.sloped[d][s] =
                IF \/ d > last.before.recursion_dimension
                   \/ (d = last.before.recursion_dimension
                          /\ s = outer_index(last.before.side))
                THEN 1 ELSE 0

\* C12 amended: sloped_sides has 1 exactly at the inner side of the recursion
\* dimension and at both sides of every dimension below it, and 0 at the
\* outer side of the recursion dimension and at both sides of every
\* dimension above it.
C12_SlopedInnerAndBelow ==
    CutDone =>
        \A d \in DOMAIN last.sloped, s \in 0..1 :
            last.sloped[d][s] =
                IF \/ d < last.before.recursion_dimension
                   \/ (d = last.before.recursion_dimension
                          /\ s = inner_index(last.before.side))
                THEN 1 ELSE 0

\* C12 witness: the mask of a frustrum that has a dimension below its
\* recursion dimension has been computed.
C12_Witness ==
    /\ CutDone
    /\ last.before.recursion_dimension = 1
    /\ last.before.side = "Max"
    /\ last.sloped[0][0] = 1

\* C14: out_of_bounds_cut returns None and leaves the frustrum as it is
\* exactly when its input box lies in the grid's box; otherwise it returns
\* sloped_sides with exactly the entries of the protruding faces cleared,
\* takes exactly one step off and leaves output_aabb, recursion_dimension
\* and side alone (the frustrum ([300,387] x [0,12], 1, Min, 13) in the grid
\* [0,399]^2 gives [1,0; 0,1]).
C14_OutOfBoundsCut ==
    CutDone =>
        LET inside == contains_aabb(global_aabb, last.input)
            protrudes(d, s) == IF s = 0 THEN last.input[d][0] < global_aabb[d][0]
                               ELSE last.input[d][1] > global_aabb[d][1]
        IN  /\ (last.ret = None) <=> inside
            /\ inside => last.self = last.before
            /\ ~inside =>
                  /\ \A d \in DOMAIN last.sloped, s \in 0..1 :
                        last.ret[1][d][s] = IF protrudes(d, s) THEN 0 ELSE last.sloped[d][s]
                  /\ last.self.steps = last.before.steps - 1
                  /\ last.self.output_aabb = last.before.output_aabb
                  /\ last.self.recursion_dimension = last.before.recursion_dimension
                  /\ last.self.side = last.before.side
            /\ (last.before.steps = 13 /\ global_aabb = Cube(0..1, 0, 399))
                  => last.ret = Some([d \in 0..1 |-> [s \in 0..1 |->
                                        IF d = s THEN 1 ELSE 0]])

\* C14 witness: a cut that cleared a sloped face and took a step off, after
\* which the input box lies in the grid.
C14_Witness ==
    /\ CutDone
    /\ last.ret # None
    /\ last.ret[1] # last.sloped
    /\ last.self.steps = last.before.steps - 1
    /\ contains_aabb(global_aabb, input_aabb(last.self, stencil_slopes))

\* C15: with the central box the grid shrunk by k * slope on every face,
\* every boundary frustrum on a slab of the grid's decomposition around it,
\* with the slab's dimension and side and k steps, has its input box in the
\* grid, and out_of_bounds_cut returns None (grid [0,199]^3, k = 50, slopes 1).
C15_BoundaryInputInGrid ==
    (last.op = "decompose_central" /\ ~last.panicked) =>
        /\ contains_aabb(global_aabb, last.input)
        /\ last.ret = None
        /\ last.self = last.before

\* C15 witness: the boundary frustrum of the test's grid, and one in two
\* dimensions whose input box is larger than its slab.
C15_Witness ==
    /\ last.op = "decompose_central"
    /\ ~last.panicked
    /\ last.ret = None
    /\ \/ last.k = CentralTestSteps /\ last.before.recursion_dimension = 2
       \/ /\ last.before.recursion_dimension = 1
          /\ last.input # last.before.output_aabb
          /\ check_validity(last.before.output_aabb)

----------------------------------------------------------------------------
(* Properties of decompose and of a cut at or past the frustrum's steps *)

Decomposed == last.op = "decompose"

TestChildren ==
    <<APFrustrum(Rect(0, 19, 0, 200), 0, "Min", 20),
      APFrustrum(Rect(20, 50, 0, 19), 1, "Min", 20),
      APFrustrum(Rect(20, 50, 181, 200), 1, "Max", 20)>>

\* C16 as stated: the frustrum with output box [20,50] x [0,200], recursion
\* dimension 0, side Min and 20 steps decomposes into exactly
\* ([0,19] x [0,200], 0, Min, 20), ([20,50] x [0,19], 1, Min, 20) and
\* ([20,50] x [181,200], 1, Max, 20).
C16_DecomposeFrom20 ==
    (Decomposed /\ last.before = APFrustrum(Rect(20, 50, 0, 200), 0, "Min", 20))
        => last.ret = TestChildren

\* C16 amended: the frustrum with output box [0,50] x [0,200], recursion
\* dimension 0, side Min and 20 steps decomposes into exactly
\* ([0,19] x [0,200], 0, Min, 20), ([20,50] x [0,19], 1, Min, 20) and
\* ([20,50] x [181,200], 1, Max, 20).
C16_DecomposeFrom0 ==
    (Decomposed /\ last.before = APFrustrum(Rect(0, 50, 0, 200), 0, "Min", 20))
        => last.ret = TestChildren

\* C16 witness: the frustrum with output box [0,50] x [0,200] has been decomposed.
C16_Witness ==
    /\ Decomposed
    /\ last.before = APFrustrum(Rect(0, 50, 0, 200), 0, "Min", 20)
    /\ Len(last.ret) = 3

\* the slab of steps cells at the side's face of an interval
SlabAt(interval, side, steps) ==
    IF side = "Min" THEN Interval(interval[0], interval[0] + steps - 1)
    ELSE Interval(interval[1] - steps + 1, interval[1])

\* C17: decompose returns exactly 1 + 2 * (D - 1 - rd) frustrums, all with
\* the parent's steps: first the slab of steps cells along rd at the outer
\* face, with the parent's dimension and side; then for each d > rd, in
\* increasing order, a Min and a Max slab of steps cells along d, cut from
\* what is left after steps cells were taken off at every face consumed
\* before ([0,10], 2 steps gives [0,1] or [9,10]; [0,50] x [0,200], d0, Max,
\* 20 steps gives [31,50] x [0,200], [0,30] x [0,19], [0,30] x [181,200]).
C17_DecomposeShape ==
    Decomposed =>
        LET F == last.before
            O == F.output_aabb
            rd == F.recursion_dimension
            st == F.steps
            n == Cardinality(DOMAIN O) - 1 - rd
            left(e, d) ==
                IF e = rd
                THEN IF F.side = "Min" THEN Interval(O[e][0] + st, O[e][1])
                     ELSE Interval(O[e][0], O[e][1] - st)
                ELSE IF e > rd /\ e < d THEN Interval(O[e][0] + st, O[e][1] - st)
                ELSE O[e]
        IN  /\ Len(last.ret) = 1 + 2 * n
            /\ \A i \in 1..Len(last.ret) : last.ret[i].steps = st
            /\ last.ret[1].recursion_dimension = rd
            /\ last.ret[1].side = F.side
            /\ \A e \in DOMAIN O :
                  last.ret[1].output_aabb[e] =
                      IF e = rd THEN SlabAt(O[e], F.side, st) ELSE O[e]
            /\ \A j \in 1..n, k \in 0..1 :
                  LET d == rd + j
                      child == last.ret[2 * j + k]
                      sd == IF k = 0 THEN "Min" ELSE "Max"
                  IN  /\ child.recursion_dimension = d
                      /\ child.side = sd
                      /\ \A e \in DOMAIN O :
                            child.output_aabb[e] =
                                IF e = d THEN SlabAt(O[e], sd, st) ELSE left(e, d)
            /\ (F = APFrustrum([d \in {0} |-> Interval(0, 10)], 0, "Max", 2))
                  => last.ret = <<APFrustrum([d \in {0} |-> Interval(9, 10)], 0, "Max", 2)>>
            /\ (F = APFrustrum(Rect(0, 50, 0, 200), 0, "Max", 20))
                  => last.ret = <<APFrustrum(Rect(31, 50, 0, 200), 0, "Max", 20),
                                  APFrustrum(Rect(0, 30, 0, 19), 1, "Min", 20),
                                  APFrustrum(Rect(0, 30, 181, 200), 1, "Max", 20)>>

\* C17 witness: a frustrum of three dimensions with recursion dimension 0
\* has been decomposed into five.
C17_Witness ==
    /\ Decomposed
    /\ Cardinality(DOMAIN last.before.output_aabb) = 3
    /\ last.before.recursion_dimension = 0
    /\ Len(last.ret) = 5

\* the cells of a box (none when a max lies below its min)
Volume(b) == IF check_validity(b) THEN buffer_size(b) ELSE 0

RECURSIVE SumVolumes(_, _)
SumVolumes(boxes, i) ==
    IF i = 0 THEN 0 ELSE Volume(boxes[i]) + SumVolumes(boxes, i - 1)

Meet(a, b) ==
    /\ check_validity(a)
    /\ check_validity(b)
    /\ \A d \in DOMAIN a : ~(a[d][1] < b[d][0] \/ b[d][1] < a[d][0])

\* every coordinate of the whole lies in exactly one box, and the boxes hold
\* nothing else
Tiles(boxes, whole) ==
    /\ \A i \in 1..Len(boxes) : check_validity(boxes[i]) => contains_aabb(whole, boxes[i])
    /\ \A i, j \in 1..Len(boxes) : i < j => ~Meet(boxes[i], boxes[j])
    /\ SumVolumes(boxes, Len(boxes)) = Volume(whole)

\* C18: for a frustrum F and the periodic solve find_periodic_solve plans on
\* F.input_aabb (F = ([0,37] x [0,60] x [0,60], 0, Min, 12), slopes 1, cutoff
\* 40, ratio 0.5, no max_steps), a solve is returned, and the output boxes of
\* F.decompose() with the solve's output box hold every coordinate of
\* F.output_aabb exactly once and nothing else.
C18_SolveAndDecomposeTile ==
    (/\ last.op = "periodic_decompose"
     /\ last.before = Decompose3dFrustrum
     /\ last.cutoff = Decompose3dCutoff) =>
        /\ last.solve # None
        /\ Tiles(FrustrumPieces(last.ret, last.solve[1].output_aabb),
                 last.before.output_aabb)

----------------------------------------------------------------------------
(* Properties of periodic_coord *)

\* C20: for every box, wherever its min corner, and every coordinate at most
\* one box size outside it along each axis, periodic_coord of the coordinate
\* lies inside the box.
C20_PeriodicCoordInside ==
    wrapped # None => contains(outer, wrapped[1].ret)

----------------------------------------------------------------------------
(* The mask of sloped sides, entry by entry *)

Mask2(a, b, c, d) == [e \in 0..1 |-> IF e = 0 THEN Interval(a, b) ELSE Interval(c, d)]

\* C21: sloped_sides is 0 at the outer side of the recursion dimension (index
\* 0 for Min, 1 for Max) and at both sides of every dimension above it, and
\* 1 at every other entry; in two dimensions (0, Min) gives [0,1; 0,0],
\* (0, Max) gives [1,0; 0,0], (1, Min) gives [1,1; 0,1], (1, Max) gives
\* [1,1; 1,0].
C21_SlopedSidesMask ==
    (last.op = "out_of_bounds_cut" \/ last.op = "decompose_central") =>
        LET F == last.before
            m == sloped_sides(F)
            rd == F.recursion_dimension
            outer_ == IF F.side = "Min" THEN 0 ELSE 1
        IN  /\ \A d \in DOMAIN m :
                  /\ d > rd => (m[d][0] = 0 /\ m[d][1] = 0)
                  /\ d = rd => (m[d][outer_] = 0 /\ m[d][1 - outer_] = 1)
                  /\ d < rd => (m[d][0] = 1 /\ m[d][1] = 1)
            /\ last.op = "out_of_bounds_cut" => last.sloped = m
            /\ Cardinality(DOMAIN m) = 2 =>
                  m = IF rd = 0
                      THEN IF F.side = "Min" THEN Mask2(0, 1, 0, 0) ELSE Mask2(1, 0, 0, 0)
                      ELSE IF F.side = "Min" THEN Mask2(1, 1, 0, 1) ELSE Mask2(1, 1, 1, 0)

\* C21 witness: the mask of a frustrum of three dimensions with a dimension
\* below and one above its recursion dimension has been computed.
C21_Witness ==
    /\ last.op = "decompose_central"
    /\ ~last.panicked
    /\ Cardinality(DOMAIN last.before.output_aabb) = 3
    /\ last.before.recursion_dimension = 1
    /\ last.before.side = "Min"

----------------------------------------------------------------------------
(* The constructors of AABB and the constant boundary condition *)

Invalid(min, max) == \E d \in DOMAIN min : min[d] > max[d]

\* C25 (as claimed): a box with min > max in some dimension fails a debug
\* assertion in every constructor, AABB::new as well as from_mm, so that every
\* AABB a build with debug assertions returns has min <= max.
C25_EveryConstructorAsserts ==
    /\ (built # None /\ built.op = "new" /\ Invalid(built.min, built.max))
          => built.panicked
    /\ (built # None /\ built.op = "from_mm" /\ built.dbg
          /\ Invalid(built.min, built.max)) => built.panicked

\* C25 (amended): from_mm fails its debug assertion exactly on a box with
\* min > max, in a build with debug assertions; AABB::new checks nothing and
\* returns the bounds it was given, so that an AABB with min > max exists, and
\* check_validity is what tells.
C25_OnlyFromMMAsserts ==
    /\ (built # None /\ built.op = "from_mm") =>
          /\ built.panicked <=> (built.dbg /\ Invalid(built.min, built.max))
          /\ check_validity(built.aabb) <=> ~Invalid(built.min, built.max)
    /\ (built # None /\ built.op = "new") =>
          /\ ~built.panicked
          /\ \A d \in Dims : built.aabb[d][0] = built.min[d] /\ built.aabb[d][1] = built.max[d]
          /\ check_validity(built.aabb) <=> ~Invalid(built.min, built.max)

\* C25 witness: AABB::new has returned a box with min > max.
C25_Witness ==
    /\ built # None
    /\ built.op = "new"
    /\ ~built.panicked
    /\ built.aabb[0][0] > built.aabb[0][1]

\* C26: ConstantCheck::check(c) returns Some(value) exactly when c lies
\* outside the bound in at least one dimension and None exactly when c lies
\* inside it (the faces included); the value is the constant given to new.
C26_ConstantCheck ==
    (built # None /\ built.op = "check") =>
        LET b == built.check.bound
            inside == \A d \in DOMAIN b : b[d][0] <= built.coord[d] /\ built.coord[d] <= b[d][1]
        IN  /\ inside <=> built.ret = None
            /\ ~inside <=> built.ret = Some(built.value)

\* C26 witness: a coordinate inside the bound in dimension 0, on its face,
\* and past the max in dimension 1 was looked up, and the constant came back.
C26_Witness ==
    /\ built # None
    /\ built.op = "check"
    /\ check_validity(built.check.bound)
    /\ built.coord[0] = built.check.bound[0][1]
    /\ built.coord[1] = built.check.bound[1][1] + 1
    /\ built.ret = Some(0 - 1)

----------------------------------------------------------------------------
(* The FFT plan library *)

Requests == plan_library.requests
Served == {i \in DOMAIN Requests : Requests[i].ret # None}

\* C22 (as claimed): plans are cached by size: two requests for boxes of the
\* same size in every dimension are served by the same plan, wherever the
\* boxes lie, and plan_map holds one entry for each size asked for.
C22_CachedBySize ==
    plan_library # None =>
        /\ \A i, j \in Served :
              exclusive_bounds(Requests[i].bound) = exclusive_bounds(Requests[j].bound)
                 => Requests[i].ret = Requests[j].ret
        /\ Cardinality(DOMAIN plan_library.self.plan_map)
              = Cardinality({exclusive_bounds(Requests[i].bound) : i \in Served})

\* C22 (amended): plans are cached by box: two requests for the same box are
\* served by the same plan, the one built at the first of them; two requests
\* for different boxes, of the same size or not, are served by different
\* plans; plan_map holds one entry for each box asked for.
C22_CachedByBound ==
    plan_library # None =>
        /\ \A i, j \in Served :
              (Requests[i].bound = Requests[j].bound) <=> (Requests[i].ret = Requests[j].ret)
        /\ \A i \in Served :
              Requests[i].ret[1].n = CHOOSE j \in Served :
                  /\ Requests[j].bound = Requests[i].bound
                  /\ \A k \in Served : Requests[k].bound = Requests[i].bound => j <= k
        /\ Cardinality(DOMAIN plan_library.self.plan_map)
              = Cardinality({Requests[i].bound : i \in Served})

\* C22 witness: the library was asked for [0,5], for [1,6] and for [0,5]
\* again, and holds two plans.
C22_Witness ==
    /\ plan_library # None
    /\ ~plan_library.panicked
    /\ Len(Requests) = 3
    /\ Requests[1].bound = Line(0, 5)
    /\ Requests[2].bound = Line(1, 6)
    /\ Requests[3].bound = Line(0, 5)
    /\ Cardinality(DOMAIN plan_library.self.plan_map) = 2

\* the request the library failed on: the last one, when its plan was not made
Failed == plan_library # None /\ plan_library.panicked

\* C23 (as claimed): when the FFT library makes no plan, get_plan returns: the
\* failure is a value handed to the caller, not a panic.
C23_FailureReturned ==
    plan_library # None =>
        \A i \in DOMAIN Requests :
            fftw_aligned(exclusive_bounds(Requests[i].bound),
                         plan_library.self.plan_type, plan_library.wisdom) = "Err"
               => ~plan_library.panicked

\* C23 (amended): when the FFT library makes no plan, FFTPlan::new panics on
\* the unwrap of the library's error: get_plan returns nothing, no error
\* value either, the plan library is as it was before the call, and nothing
\* is asked of it afterwards; and get_plan panics in no other case.
C23_FailurePanics ==
    plan_library # None =>
        /\ \A i \in DOMAIN Requests :
              LET fails == fftw_aligned(exclusive_bounds(Requests[i].bound),
                              plan_library.self.plan_type, plan_library.wisdom) = "Err"
              IN  /\ fails => /\ plan_library.panicked
                              /\ i = Len(Requests)
                              /\ Requests[i].ret = None
                              /\ plan_library.self = Requests[i].before
                  /\ ~fails => Requests[i].ret # None
        /\ plan_library.panicked => Requests # <<>>

\* C23 witness: under WisdomOnly a plan was made for a size with wisdom, and
\* the request for a size without wisdom panicked.
C23_Witness ==
    /\ Failed
    /\ plan_library.self.plan_type = "WisdomOnly"
    /\ Len(Requests) = 2
    /\ Requests[1].ret # None
    /\ Requests[2].ret = None

----------------------------------------------------------------------------
(* The steps of a frustrum under the three operations *)

\* a usize that wrapped (written -1) is far above one
AtLeastOne(steps) == steps >= 1 \/ steps = 0 - 1

\* the frustrums the last operation made or changed
Made ==
    IF last.op = "time_cut" THEN {last.self} \cup {last.ret[i] : i \in DOMAIN last.ret}
    ELSE IF last.op = "decompose" THEN {last.ret[i] : i \in DOMAIN last.ret}
    ELSE IF last.op = "out_of_bounds_cut" THEN {last.self}
    ELSE {}

\* C27 (as claimed): every frustrum that time_cut, decompose or
\* out_of_bounds_cut makes or changes, in any sequence of calls with
\* 0 <= cut_steps <= steps from a frustrum of steps >= 1, has steps >= 1.
C27_StepsAtLeastOne ==
    ~last.panicked => \A f \in Made : AtLeastOne(f.steps)

\* C27 (amended): every frustrum that time_cut with 1 <= cut_steps <= steps
\* or decompose makes or changes, in any sequence of such calls from a
\* frustrum of steps >= 1, has steps >= 1; time_cut(0) leaves the head with 0
\* steps and gives the tail them all, and out_of_bounds_cut takes one step off
\* a frustrum whose input box sticks out of the grid, so that one of 1 step is
\* left with 0.
C27_StepsKept ==
    ("clean" \in DOMAIN last /\ ~last.panicked) =>
        /\ last.clean => (chain[1].steps >= 1 /\ \A f \in Made : f.steps >= 1)
        /\ (last.op = "time_cut" /\ last.cut_steps = 0 /\ last.before.steps >= 1) =>
              (last.self.steps = 0 /\ last.ret # None
                 /\ last.ret[1].steps = last.before.steps)
        /\ (last.op = "out_of_bounds_cut" /\ last.ret # None /\ last.before.steps >= 1) =>
              last.self.steps = last.before.steps - 1

\* C27 witness: after a decomposition and a time cut of one step or more, the
\* frustrum has been cut again, at 0 steps.
C27_Witness ==
    /\ "clean" \in DOMAIN last
    /\ ~last.clean
    /\ last.op = "time_cut"
    /\ last.cut_steps = 0
    /\ last.before.steps >= 1
    /\ last.before.steps < orig.steps
    /\ last.before.recursion_dimension > orig.recursion_dimension
    /\ chain[1].steps = 0

----------------------------------------------------------------------------
(* The steps of the trapezoid solve *)

\* C30: at every step of trapezoid_apply, for slopes that are not negative,
\* any mask and any number of steps, the output box of the step lies in the
\* box of the domain the step reads, and holds no more cells than it, so that
\* neither the assertion at the entry of par_stencil::apply nor the one in
\* the loop fails, at the first step (the input is the caller's) and at the
\* later ones (the input is the domain the step before wrote).
C30_OutputBoxInInput ==
    Applied =>
        LET t == trapezoid[1]
            trace == t.result.trace
        IN  /\ ~t.result.panicked
            /\ Len(trace) = t.steps
            /\ \A i \in DOMAIN trace :
                  /\ contains_aabb(trace[i].input_aabb, trace[i].output_box)
                  /\ buffer_size(trace[i].output_box) <= buffer_size(trace[i].input_aabb)
                  /\ trace[i].input_aabb = IF i = 1 THEN t.input_region
                                           ELSE trace[i - 1].output_box

\* C30 witness: a solve of three steps in two dimensions, sloped on some
\* faces only, whose boxes shrank at every step.
C30_Witness ==
    /\ Applied
    /\ ~trapezoid[1].result.panicked
    /\ trapezoid[1].steps = 3
    /\ Len(trapezoid[1].result.trace) = 3
    /\ Cardinality(DOMAIN trapezoid[1].input_region) = 2
    /\ trapezoid[1].sloped_sides[0][0] = 0
    /\ trapezoid[1].sloped_sides[1][1] = 1
    /\ \A i \in 1..3 : trapezoid[1].result.trace[i].output_box
                          # trapezoid[1].result.trace[i].input_aabb

----------------------------------------------------------------------------
(* The scratch buffers of an AOB direct solve *)

\* C28: with the scratch buffers of a leaf sized input_aabb.buffer_size(),
\* each buffer get_input_output pairs with a box is at least as long as the
\* box's buffer_size: its two assertions hold and the domains it returns keep
\* buffer.len() >= aabb.buffer_size(), also for an AOB direct solve, whose
\* domains are made over init_input_aabb.
C28_ScratchHoldsAABB ==
    last.op = "aob_direct_solve_allocate_io" =>
        /\ ~last.panicked
        /\ fits(last.input_domain, last.input_domain.aabb)
        /\ fits(last.output_domain, last.output_domain.aabb)

----------------------------------------------------------------------------
(* Where a call of the executor leaves the newest field *)

SolveIds == PeriodicIds \cup DirectIds

\* the call of the node has returned and its caller has not moved on: a
\* boundary node is about to copy out, a time-cut successor's predecessor and
\* solve_root are where they called
JustReturned(id) ==
    /\ panic = ""
    /\ IF IsBoundary(id) THEN pc[id] = "copy_out"
       ELSE IF IsTimeCut(id) THEN pc[id] = "done" /\ pc[Front(id)] = "in_time_cut"
       ELSE /\ pc[id] = "done"
            /\ \/ pc[plan.root] = "in_node" /\ id = Nodes[plan.root].node
               \/ pc[plan.root] = "in_next" /\ id = Nodes[plan.root].next[1]

\* the time of the field the caller of a boundary node waits for: that of its
\* own output domain, which the convolution wrote
ParentTime(id) == domains[Owner(Front(id))].output_domain.time

----------------------------------------------------------------------------
(* The caller's domains at solve entry *)

\* a domain of the caller has a buffer shorter than its box takes
CallerShort ==
    \/ ~fits(domains[plan.root].input_domain, domains[plan.root].input_domain.aabb)
    \/ ~fits(domains[plan.root].output_domain, domains[plan.root].output_domain.aabb)

\* the two domains are as the caller made them
AsGiven ==
    /\ domains[plan.root].input_domain.buffer.arena = "input_buffer"
    /\ domains[plan.root].output_domain.buffer.arena = "output_buffer"

\* the first node solve_root calls, if the plan has one
FirstCall ==
    IF Nodes[plan.root].n > 0 THEN Some(Nodes[plan.root].node) ELSE Nodes[plan.root].next

====
